---------------------------- MODULE Spec2Model ----------------------------
(***************************************************************************)
(* A model of the wallet service: the Wallet entity, the WalletService     *)
(* request path through TransactionManager.execute, and the transfer saga  *)
(* with its recovery loop.  Amounts are integers of minor units (the       *)
(* store keeps balances as DECIMAL(20,2)).                                 *)
(***************************************************************************)
EXTENDS Integers, Sequences, FiniteSets, TLC

(* ------------------------------ bounds --------------------------------- *)
MaxAmount == 2
MaxBalance == 4
MaxOps == 5
MaxDay == 1
MaxFaults == 2
MaxDeliveries == 3
MaxErrors == 4

(* ----------------------------- constants ------------------------------- *)
Null == -1
WalletIds == {"A", "B"}
Amounts == (0 - 1)..MaxAmount
Limits == {Null, 0} \cup 1..MaxAmount

Clients == {"c1", "c2"}
Transfers == {"t1", "t2"}
Replicas == {"x1", "x2"}
Relays == {"y1"}
Workers == {"w1", "w2"}
Ticks == {"k1", "k2"}
Procs == Clients \cup Transfers \cup Replicas \cup Relays \cup Ticks
RequestIds == {"none", "r1", "r2"}

VARIABLES
  wallet,     \* the wallets table: id -> row (status "ABSENT": no row)
  events,     \* the wallet_events journal, in insertion order
  outbox,     \* the outbox_events table, in insertion order
  idem,       \* the idempotency_keys table: request id -> stored response
  lockHolder, \* per wallet row, the transaction holding its FOR UPDATE lock
  redisLock,  \* the request ids whose lock:req:<id> key is set
  today,      \* the current UTC date, as a day number
  pc,         \* per process, its position
  loc,        \* per process, its arguments and local variables
  saga,       \* the transfer_sagas table: saga id -> row (state "NONE": no row)
  faultsLeft, \* how many more store, cache or broker failures and crashes may occur
  cache,      \* the balance cache: wallet id -> cached balance (Null: no key)
  delivered,  \* the positions of the outbox rows the event bus has received
  brokerUp,   \* whether the event publisher is connected and the broker reachable
  initRow,    \* per wallet, the row before any request ran
  fraud,      \* the fraud consumer: its queue, workers, cache keys and alerts
  isProcessing, \* OutboxRelayService.isProcessing of the worker process
  isRecovering, \* SagaRecoveryService.isRecovering of the worker process
  sumDep,     \* per wallet, the sum of the amounts of the successful deposits
  sumWd,      \* per wallet, the sum of the amounts of the successful withdrawals
  nOps        \* entity calls made so far

storeVars == <<wallet, events, outbox, idem, lockHolder, redisLock>>
storeRest == <<events, outbox, idem, lockHolder, redisLock>>
procVars == <<pc, loc>>
entityVars == <<sumDep, sumWd, nOps>>
sagaVars == <<saga, faultsLeft>>
edgeVars == <<cache, delivered, brokerUp>>
vars == <<wallet, events, outbox, idem, lockHolder, redisLock, today, pc, loc,
          saga, faultsLeft, cache, delivered, brokerUp, initRow, fraud, isProcessing, isRecovering, sumDep, sumWd, nOps>>

(* ---------------------------- Wallet entity ---------------------------- *)
NewWallet ==
  [balance |-> 0, status |-> "ACTIVE", limit |-> Null, dailyTotal |-> 0, lastDay |-> Null]

Ok(w) == [w |-> w, err |-> "none"]
Fail(w, e) == [w |-> w, err |-> e]

WalletDeposit(w, a) ==
  IF a <= 0 THEN Fail(w, "InvalidAmount")
  ELSE IF w.status # "ACTIVE" THEN Fail(w, "WalletNotActive")
  ELSE Ok([w EXCEPT !.balance = w.balance + a])

ResetDailyLimitIfNewDay(w, day) ==
  IF w.lastDay # day THEN [w EXCEPT !.dailyTotal = 0] ELSE w

WithdrawNoFundsCheck(w, a, day) ==
  IF a <= 0 THEN Fail(w, "InvalidAmount")
  ELSE IF w.status # "ACTIVE" THEN Fail(w, "WalletNotActive")
  ELSE LET r == ResetDailyLimitIfNewDay(w, day) IN
       IF r.limit # Null /\ r.dailyTotal + a > r.limit
         THEN Fail(r, "WithdrawalLimitExceeded")
       ELSE Ok([r EXCEPT !.balance = r.balance - a,
                         !.dailyTotal = r.dailyTotal + a,
                         !.lastDay = day])

WalletWithdraw(w, a, day) ==
  IF a <= 0 THEN Fail(w, "InvalidAmount")
  ELSE IF w.status # "ACTIVE" THEN Fail(w, "WalletNotActive")
  ELSE LET r == ResetDailyLimitIfNewDay(w, day) IN
       IF r.limit # Null /\ r.dailyTotal + a > r.limit
         THEN Fail(r, "WithdrawalLimitExceeded")
       ELSE IF r.balance < a THEN Fail(r, "InsufficientFunds")
       ELSE Ok([r EXCEPT !.balance = r.balance - a,
                         !.dailyTotal = r.dailyTotal + a,
                         !.lastDay = day])

\* a credit that does not look at the status
CreditAnyStatus(w, a) ==
  IF a <= 0 THEN Fail(w, "InvalidAmount")
  ELSE Ok([w EXCEPT !.balance = w.balance + a])

WalletCredit(w, a) ==
  IF a <= 0 THEN Fail(w, "InvalidAmount")
  ELSE IF w.status # "ACTIVE" THEN Fail(w, "WalletNotActive")
  ELSE Ok([w EXCEPT !.balance = w.balance + a])

WalletFreeze(w) ==
  IF w.status = "CLOSED" THEN Fail(w, "WalletClosed")
  ELSE Ok([w EXCEPT !.status = "FROZEN"])

WalletUnfreeze(w) ==
  IF w.status = "FROZEN" THEN Ok([w EXCEPT !.status = "ACTIVE"]) ELSE Ok(w)

WalletClose(w) ==
  IF w.balance # 0 THEN Fail(w, "NonZeroBalance")
  ELSE Ok([w EXCEPT !.status = "CLOSED"])

WalletSetDailyWithdrawalLimit(w, l) ==
  IF l # Null /\ l <= 0 THEN Fail(w, "InvalidAmount")
  ELSE Ok([w EXCEPT !.limit = l])

(* ------------- calls on Wallet objects (no store, no service) ----------- *)
NoBuf == [wallet |-> NewWallet, saga |-> "same", events |-> <<>>, pending |-> <<>>,
          outbox |-> <<>>]
OffLoc == [op |-> "none", wid |-> "A", to |-> "B", amt |-> 0, rid |-> "none",
           buf |-> NoBuf, result |-> Null, err |-> "none", errAt |-> "none",
           thrown |-> "none", thrownAt |-> "none", committed |-> FALSE,
           replay |-> FALSE, cur |-> "none", loaded |-> "NONE", queue |-> {},
           publishedIds |-> {}, prevErr |-> "none", dirty |-> {}]
NoSaga == [state |-> "NONE", from |-> "A", to |-> "B", amt |-> 0, stale |-> FALSE]
\* how a worker left its last message: whether processing threw, the reply to
\* the broker, the message sent to a wait queue
NoOutcome == [threw |-> FALSE, reply |-> "none", sent |-> <<>>]
Acked == [threw |-> FALSE, reply |-> "ack", sent |-> <<>>]
\* the fraud consumer with nothing published to it
NoFraud ==
  [type |-> "none", amt |-> 0, copies |-> 0, queue |-> <<>>,
   key |-> FALSE, expired |-> FALSE, own |-> FALSE, others |-> 0,
   high |-> 0, rapid |-> 0, runs |-> 0, done |-> 0, wait |-> <<>>, dlq |-> 0, errs |-> 0, later |-> 0,
   wpc |-> [w \in Workers |-> "idle"], wretry |-> [w \in Workers |-> 0],
   wlast |-> [w \in Workers |-> NoOutcome]]
InitBus ==
  /\ cache = [id \in WalletIds |-> Null]
  /\ isProcessing = FALSE
  /\ isRecovering = FALSE
  /\ delivered = {}
  /\ brokerUp = TRUE
InitEdge ==
  /\ InitBus
  /\ fraud = NoFraud
InitSagaEmpty ==
  /\ saga = [s \in Transfers |-> NoSaga]
  /\ faultsLeft = 0
  /\ InitEdge

InitStoreEmpty ==
  /\ events = <<>>
  /\ outbox = <<>>
  /\ idem = [r \in RequestIds \ {"none"} |-> Null]
  /\ lockHolder = [id \in WalletIds |-> "none"]
  /\ redisLock = {}

InitWallet ==
  /\ wallet = [id \in WalletIds |-> NewWallet]
  /\ today = 0
  /\ InitStoreEmpty
  /\ InitSagaEmpty
  /\ pc = [p \in Procs |-> "off"]
  /\ loc = [p \in Procs |-> OffLoc]
  /\ initRow = [id \in WalletIds |-> NewWallet]
  /\ sumDep = [id \in WalletIds |-> 0]
  /\ sumWd = [id \in WalletIds |-> 0]
  /\ nOps = 0

EntDeposit(id, a) ==
  LET r == WalletDeposit(wallet[id], a) IN
  /\ nOps < MaxOps
  /\ r.w.balance <= MaxBalance
  /\ wallet' = [wallet EXCEPT ![id] = r.w]
  /\ sumDep' = [sumDep EXCEPT ![id] = IF r.err = "none" THEN @ + a ELSE @]
  /\ nOps' = nOps + 1
  /\ UNCHANGED <<today, sumWd, storeRest, procVars, initRow, fraud, isProcessing, isRecovering, sagaVars, edgeVars>>

EntWithdraw(id, a) ==
  LET r == WalletWithdraw(wallet[id], a, today) IN
  /\ nOps < MaxOps
  /\ wallet' = [wallet EXCEPT ![id] = r.w]
  /\ sumWd' = [sumWd EXCEPT ![id] = IF r.err = "none" THEN @ + a ELSE @]
  /\ nOps' = nOps + 1
  /\ UNCHANGED <<today, sumDep, storeRest, procVars, initRow, fraud, isProcessing, isRecovering, sagaVars, edgeVars>>

EntFreeze(id) ==
  /\ nOps < MaxOps
  /\ wallet' = [wallet EXCEPT ![id] = WalletFreeze(@).w]
  /\ nOps' = nOps + 1
  /\ UNCHANGED <<today, sumDep, sumWd, storeRest, procVars, initRow, fraud, isProcessing, isRecovering, sagaVars, edgeVars>>

EntUnfreeze(id) ==
  /\ nOps < MaxOps
  /\ wallet' = [wallet EXCEPT ![id] = WalletUnfreeze(@).w]
  /\ nOps' = nOps + 1
  /\ UNCHANGED <<today, sumDep, sumWd, storeRest, procVars, initRow, fraud, isProcessing, isRecovering, sagaVars, edgeVars>>

EntClose(id) ==
  /\ nOps < MaxOps
  /\ wallet' = [wallet EXCEPT ![id] = WalletClose(@).w]
  /\ nOps' = nOps + 1
  /\ UNCHANGED <<today, sumDep, sumWd, storeRest, procVars, initRow, fraud, isProcessing, isRecovering, sagaVars, edgeVars>>

EntSetLimit(id, l) ==
  /\ nOps < MaxOps
  /\ wallet' = [wallet EXCEPT ![id] = WalletSetDailyWithdrawalLimit(@, l).w]
  /\ nOps' = nOps + 1
  /\ UNCHANGED <<today, sumDep, sumWd, storeRest, procVars, initRow, fraud, isProcessing, isRecovering, sagaVars, edgeVars>>

NewDay ==
  /\ today < MaxDay
  /\ today' = today + 1
  /\ UNCHANGED <<wallet, sumDep, sumWd, nOps, storeRest, procVars, initRow, fraud, isProcessing, isRecovering, sagaVars, edgeVars>>

NextWallet ==
  \/ \E id \in WalletIds, a \in Amounts : EntDeposit(id, a)
  \/ \E id \in WalletIds, a \in Amounts : EntWithdraw(id, a)
  \/ \E id \in WalletIds : EntFreeze(id)
  \/ \E id \in WalletIds : EntUnfreeze(id)
  \/ \E id \in WalletIds : EntClose(id)
  \/ \E id \in WalletIds, l \in Limits : EntSetLimit(id, l)
  \/ NewDay

SpecWallet == InitWallet /\ [][NextWallet]_vars

(* C1: after every deposit or withdraw call on a wallet, successful or     *)
(* failing, the balance is >= 0 and equals the sum of the successful       *)
(* deposits minus the sum of the successful withdrawals.                   *)
C1_BalanceIsDepositsMinusWithdrawals ==
  \A id \in WalletIds :
    /\ wallet[id].balance >= 0
    /\ wallet[id].balance = sumDep[id] - sumWd[id]

C1_Witness ==
  \E id \in WalletIds :
    /\ sumDep[id] > sumWd[id]
    /\ sumWd[id] > 0
    /\ nOps > 3

(* ------------ WalletService.deposit / withdraw, step by step ------------ *)
AbsentWallet == [NewWallet EXCEPT !.status = "ABSENT"]
Ev(w, type, p) == [wallet |-> w, type |-> type, by |-> p]
Row(w, type, p) == [aggregate |-> w, type |-> type, by |-> p, published |-> FALSE]

SvcInitRows ==
  {AbsentWallet, [NewWallet EXCEPT !.status = "CLOSED"]} \cup
  {[NewWallet EXCEPT !.balance = b, !.status = s, !.limit = l] :
     b \in 0..MaxAmount, s \in {"ACTIVE", "FROZEN"}, l \in {Null, 1}}

SvcInitLocs ==
  {[OffLoc EXCEPT !.op = o, !.amt = a, !.rid = r] :
     o \in {"deposit", "withdraw"}, a \in 0..MaxAmount, r \in RequestIds}

InitService ==
  /\ \E row \in SvcInitRows :
       /\ wallet = [id \in WalletIds |-> IF id = "A" THEN row ELSE AbsentWallet]
       /\ initRow = [id \in WalletIds |-> IF id = "A" THEN row ELSE AbsentWallet]
       /\ events = IF row.status = "ABSENT" THEN <<>>
                   ELSE <<Ev("A", "WALLET_CREATED", "init")>>
  /\ outbox = <<>>
  /\ idem = [r \in RequestIds \ {"none"} |-> Null]
  /\ lockHolder = [id \in WalletIds |-> "none"]
  /\ redisLock = {}
  /\ today = 0
  /\ pc = [p \in Procs |-> IF p \in Clients THEN "start" ELSE "off"]
  /\ InitSagaEmpty
  /\ \E l1, l2 \in SvcInitLocs :
       loc = [p \in Procs |-> IF p = "c1" THEN l1 ELSE IF p = "c2" THEN l2 ELSE OffLoc]
  /\ sumDep = [id \in WalletIds |-> 0]
  /\ sumWd = [id \in WalletIds |-> 0]
  /\ nOps = 0

HasEvents(id) == \E i \in 1..Len(events) : events[i].wallet = id

\* executeIdempotentTransaction, the lookup of the idempotency record
SvcCheckIdempotency(p) ==
  /\ pc[p] = "start"
  /\ LET r == loc[p].rid IN
       IF r # "none" /\ idem[r] # Null
         THEN /\ pc' = [pc EXCEPT ![p] = "setCache"]
              /\ loc' = [loc EXCEPT ![p].result = idem[r], ![p].replay = TRUE]
         ELSE /\ pc' = [pc EXCEPT ![p] = "acquire"]
              /\ loc' = loc
  /\ UNCHANGED <<storeVars, today, initRow, fraud, isProcessing, isRecovering, entityVars, sagaVars, edgeVars>>

\* an acquisition placed inside the try block: a refused call passes through
\* the catch and finally blocks
AcquireInsideTry(p) ==
  /\ pc[p] = "acquire"
  /\ LET r == loc[p].rid IN
       IF r = "none"
         THEN /\ pc' = [pc EXCEPT ![p] = "execute"]
              /\ UNCHANGED <<loc, redisLock, sagaVars, edgeVars>>
         ELSE IF r \in redisLock
           THEN /\ pc' = [pc EXCEPT ![p] = "rollback"]
                /\ loc' = [loc EXCEPT ![p].err = "ConcurrentRequest"]
                /\ UNCHANGED redisLock
           ELSE /\ pc' = [pc EXCEPT ![p] = "execute"]
                /\ redisLock' = redisLock \cup {r}
                /\ loc' = loc
  /\ UNCHANGED <<wallet, events, outbox, idem, lockHolder, today, initRow, fraud, isProcessing, isRecovering, entityVars, sagaVars, edgeVars>>

\* TransactionManager.execute, step 1: SET lockKey NX, then open the transaction
TmAcquireLock(p) ==
  /\ pc[p] = "acquire"
  /\ LET r == loc[p].rid IN
       IF r = "none"
         THEN /\ pc' = [pc EXCEPT ![p] = "execute"]
              /\ UNCHANGED <<loc, redisLock, sagaVars, edgeVars>>
         ELSE IF r \in redisLock
           THEN /\ pc' = [pc EXCEPT ![p] = "done"]
                /\ loc' = [loc EXCEPT ![p].err = "ConcurrentRequest"]
                /\ UNCHANGED redisLock
           ELSE /\ pc' = [pc EXCEPT ![p] = "execute"]
                /\ redisLock' = redisLock \cup {r}
                /\ loc' = loc
  /\ UNCHANGED <<wallet, events, outbox, idem, lockHolder, today, initRow, fraud, isProcessing, isRecovering, entityVars, sagaVars, edgeVars>>

\* the wallet row a request works on: getOrCreate (deposit) or findByIdWithLock
SvcLoadWallet(p) ==
  LET row == wallet[loc[p].wid] IN
  IF loc[p].op = "deposit"
    THEN [found |-> TRUE,
          w |-> IF row.status = "ABSENT" THEN NewWallet ELSE row,
          events |-> IF row.status = "ABSENT" /\ ~HasEvents(loc[p].wid)
                       THEN <<Ev(loc[p].wid, "WALLET_CREATED", p)>> ELSE <<>>]
    ELSE [found |-> row.status # "ABSENT", w |-> row, events |-> <<>>]

SvcOperation(p, w) ==
  IF loc[p].op = "deposit" THEN WalletDeposit(w, loc[p].amt)
  ELSE WalletWithdraw(w, loc[p].amt, today)

SvcEventType(p) ==
  IF loc[p].op = "deposit" THEN "FUNDS_DEPOSITED" ELSE "FUNDS_WITHDRAWN"

\* whether the row lock a transaction asks for is granted (FOR UPDATE waits
\* while another transaction holds it); a plain read would never wait
PlainRead(p, id) == TRUE
RowLockFree(p, id) == lockHolder[id] = "none"

\* the operation closure of executeIdempotentTransaction: lock the row, run the
\* entity method, saveWithEvent, publishEvent, save the idempotency key
SvcExecute(p) ==
  /\ pc[p] = "execute"
  /\ LET ld == SvcLoadWallet(p)
         r == SvcOperation(p, ld.w)
         id == loc[p].wid
     IN
       IF ~ld.found
         THEN /\ pc' = [pc EXCEPT ![p] = "rollback"]
              /\ loc' = [loc EXCEPT ![p].err = "NotFound"]
              /\ UNCHANGED lockHolder
         ELSE /\ RowLockFree(p, id)
              /\ lockHolder' = [lockHolder EXCEPT ![id] = p]
              /\ IF r.err # "none"
                   THEN /\ pc' = [pc EXCEPT ![p] = "rollback"]
                        /\ loc' = [loc EXCEPT ![p].err = r.err,
                                              ![p].buf = [NoBuf EXCEPT !.events = ld.events]]
                   ELSE /\ pc' = [pc EXCEPT ![p] = "saveOutbox"]
                        /\ loc' = [loc EXCEPT
                             ![p].buf = [wallet |-> r.w, saga |-> "same",
                                         events |-> ld.events \o <<Ev(id, SvcEventType(p), p)>>,
                                         pending |-> <<Row(id, SvcEventType(p), p)>>,
                                         outbox |-> <<>>],
                             ![p].result = r.w.balance]
  /\ UNCHANGED <<wallet, events, outbox, idem, redisLock, today, initRow, fraud, isProcessing, isRecovering, entityVars, sagaVars, edgeVars>>

\* where outboxRepository.saveAll puts the rows: with the transaction's manager
\* they join the transaction; "store" would write them at once
OutboxSaveOutsideTx == "store"
OutboxSaveTarget == "tx"

\* TransactionManager.execute, step 3: save the collected events as outbox rows
TmSaveOutbox(p) ==
  /\ pc[p] = "saveOutbox"
  /\ pc' = [pc EXCEPT ![p] = "commit"]
  /\ IF OutboxSaveTarget = "tx"
       THEN /\ loc' = [loc EXCEPT ![p].buf.outbox = loc[p].buf.pending]
            /\ outbox' = outbox
       ELSE /\ outbox' = outbox \o loc[p].buf.pending
            /\ loc' = loc
  /\ UNCHANGED <<wallet, events, idem, lockHolder, redisLock, today, initRow, fraud, isProcessing, isRecovering, entityVars, sagaVars, edgeVars>>

\* the row locks after p's transaction ends; KeepRows would carry them over
\* into p's next transaction
KeepRows(p) == lockHolder
ReleaseRows(p) == [id \in WalletIds |-> IF lockHolder[id] = p THEN "none" ELSE lockHolder[id]]

\* TransactionManager.execute, steps 4 and 6: commit, release the lock, return
TmCommit(p) ==
  /\ pc[p] = "commit"
  /\ wallet' = [wallet EXCEPT ![loc[p].wid] = loc[p].buf.wallet]
  /\ events' = events \o loc[p].buf.events
  /\ outbox' = outbox \o loc[p].buf.outbox
  /\ idem' = IF loc[p].rid = "none" THEN idem
             ELSE [idem EXCEPT ![loc[p].rid] = loc[p].result]
  /\ lockHolder' = ReleaseRows(p)
  /\ redisLock' = redisLock \ {loc[p].rid}
  /\ pc' = [pc EXCEPT ![p] = "setCache"]
  /\ loc' = [loc EXCEPT ![p].committed = TRUE, ![p].buf = NoBuf]
  /\ UNCHANGED <<today, initRow, fraud, isProcessing, isRecovering, entityVars, sagaVars, edgeVars>>

\* TransactionManager.execute, catch and finally: roll back, release, rethrow
TmRollback(p) ==
  /\ pc[p] = "rollback"
  /\ lockHolder' = ReleaseRows(p)
  /\ redisLock' = redisLock \ {loc[p].rid}
  /\ pc' = [pc EXCEPT ![p] = "done"]
  /\ loc' = [loc EXCEPT ![p].buf = NoBuf, ![p].result = Null]
  /\ UNCHANGED <<wallet, events, outbox, idem, today, initRow, fraud, isProcessing, isRecovering, entityVars, sagaVars, edgeVars>>

\* saveAll or commitTransaction throws
TmStoreFault(p) ==
  /\ pc[p] \in {"saveOutbox", "commit"}
  /\ pc' = [pc EXCEPT ![p] = "rollback"]
  /\ loc' = [loc EXCEPT ![p].err = "StoreError"]
  /\ UNCHANGED <<storeVars, today, initRow, fraud, isProcessing, isRecovering, entityVars, sagaVars, edgeVars>>

\* deposit / withdraw after executeIdempotentTransaction returned:
\* setBalanceCache(walletId, result.balance), return result
SvcSetCache(p) ==
  /\ pc[p] = "setCache"
  /\ cache' = [cache EXCEPT ![loc[p].wid] = loc[p].result]
  /\ pc' = [pc EXCEPT ![p] = "done"]
  /\ UNCHANGED <<storeVars, today, loc, initRow, fraud, isProcessing, isRecovering, entityVars, sagaVars, delivered, brokerUp>>

NextService ==
  \/ \E p \in Clients : SvcSetCache(p)
  \/ \E p \in Clients : SvcCheckIdempotency(p)
  \/ \E p \in Clients : TmAcquireLock(p)
  \/ \E p \in Clients : SvcExecute(p)
  \/ \E p \in Clients : TmSaveOutbox(p)
  \/ \E p \in Clients : TmCommit(p)
  \/ \E p \in Clients : TmRollback(p)

NextServiceFaulty ==
  \/ NextService
  \/ \E p \in Clients : TmStoreFault(p)

SpecService == InitService /\ [][NextService]_vars
SpecServiceFaulty == InitService /\ [][NextServiceFaulty]_vars

(* ------------------------- claims on the service ------------------------ *)
RECURSIVE SetSum(_, _)
SetSum(S, f) ==
  IF S = {} THEN 0
  ELSE LET x == CHOOSE y \in S : TRUE IN f[x] + SetSum(S \ {x}, f)

Done(p) == pc[p] = "done"
Returned(p) == Done(p) /\ loc[p].err = "none"
\* the call went through TransactionManager.execute and execute returned
ExecReturned(p) ==
  pc[p] \in {"setCache", "done"} /\ loc[p].err = "none" /\ ~loc[p].replay
ExecThrew(p) == Done(p) /\ loc[p].err # "none"
Delta(p) == IF loc[p].op = "deposit" THEN loc[p].amt ELSE 0 - loc[p].amt
EventsBy(p) == {i \in 1..Len(events) : events[i].by = p}
OutboxBy(p) == {i \in 1..Len(outbox) : outbox[i].by = p}
SameRequest(p, q) ==
  /\ loc[p].rid = loc[q].rid
  /\ loc[p].op = loc[q].op
  /\ loc[p].wid = loc[q].wid
  /\ loc[p].amt = loc[q].amt

(* C3: submissions of deposit or withdraw with the same requestId change   *)
(* the wallet balance once, and every submission that returns a result     *)
(* returns the result of the first one.                                    *)
C3_SameRequestIdAppliedOnce ==
  \A p, q \in Clients :
    (p # q /\ loc[p].rid # "none" /\ SameRequest(p, q)) =>
      /\ ~(loc[p].committed /\ loc[q].committed)
      /\ (Returned(p) /\ Returned(q)) => loc[p].result = loc[q].result

(* C6: when TransactionManager.execute throws, nothing the operation wrote  *)
(* and no outbox row of its events is in the store; when it returns, the    *)
(* wallet write, the event, the idempotency record and exactly one outbox   *)
(* row per published event are in the store.                                *)
C6_ExecuteIsAtomic ==
  /\ \A p \in Clients :
       /\ ExecThrew(p) => (EventsBy(p) = {} /\ OutboxBy(p) = {})
       /\ ExecReturned(p) =>
            /\ Cardinality(OutboxBy(p)) = 1
            /\ \E i \in EventsBy(p) : events[i].type = SvcEventType(p)
            /\ loc[p].rid # "none" => idem[loc[p].rid] # Null
            /\ wallet[loc[p].wid].status # "ABSENT"
  /\ \A id \in WalletIds :
       wallet[id].balance = initRow[id].balance
         + SetSum({p \in Clients : ExecReturned(p) /\ loc[p].wid = id},
                  [p \in Clients |-> Delta(p)])

C6_Witness ==
  \E p, q \in Clients :
    /\ ExecThrew(p) /\ loc[p].err = "StoreError"
    /\ ExecReturned(q) /\ loc[q].wid = loc[p].wid
    /\ wallet[loc[q].wid].balance # initRow[loc[q].wid].balance

\* one request run alone on a wallet row: the row it leaves and its outcome
SerialRun(row, p) ==
  IF loc[p].op = "withdraw" /\ row.status = "ABSENT"
    THEN [row |-> row, err |-> "NotFound"]
  ELSE LET base == IF row.status = "ABSENT" THEN NewWallet ELSE row
           r == IF loc[p].op = "deposit" THEN WalletDeposit(base, loc[p].amt)
                ELSE WalletWithdraw(base, loc[p].amt, today)
       IN IF r.err = "none" THEN [row |-> r.w, err |-> "none"]
          ELSE [row |-> row, err |-> r.err]

SerialOrder(p, q) ==
  LET first == SerialRun(initRow[loc[p].wid], p)
      second == SerialRun(first.row, q)
  IN /\ loc[p].err = first.err
     /\ loc[q].err = second.err
     /\ wallet[loc[p].wid] = second.row

DistinctRequests(p, q) == loc[p].rid # loc[q].rid \/ loc[p].rid = "none"

FullBalanceWithdrawals(p, q) ==
  /\ p # q /\ DistinctRequests(p, q)
  /\ loc[p].op = "withdraw" /\ loc[q].op = "withdraw"
  /\ initRow["A"].status = "ACTIVE" /\ initRow["A"].limit = Null
  /\ initRow["A"].balance > 0
  /\ loc[p].amt = initRow["A"].balance /\ loc[q].amt = initRow["A"].balance

Step(st) == [state |-> st, err |-> "none"]
Illegal(st) == [state |-> st, err |-> "IllegalTransition"]
MarkAsDebited(st) == IF st = "PENDING" THEN Step("DEBITED") ELSE Illegal(st)
\* a completion that leaves the saga where it was
CompleteWithoutSagaUpdate(st) == Step("DEBITED")
MarkAsCompleted(st) == IF st = "DEBITED" THEN Step("COMPLETED") ELSE Illegal(st)
\* a compensation that leaves the saga row as it is
RefundWithoutSagaUpdate(st) == Step("same")
MarkAsCompensated(st) == IF st = "DEBITED" THEN Step("COMPENSATED") ELSE Illegal(st)
MarkAsFailed(st) == Step("FAILED")

(* -------------- TransferSagaService and SagaRecoveryService -------------- *)
BatchLimit == 10
sagaFrame == <<idem, redisLock, today, initRow, fraud, isProcessing, isRecovering, entityVars, delivered, brokerUp>>

SagaInitRowsA == {[NewWallet EXCEPT !.balance = b] : b \in 1..MaxAmount}
SagaInitRowsB ==
  {AbsentWallet, [NewWallet EXCEPT !.status = "FROZEN"]} \cup
  {[NewWallet EXCEPT !.balance = b] : b \in 0..MaxAmount}
TransferLoc(p, from, to, a) ==
  [OffLoc EXCEPT !.op = "transfer", !.wid = from, !.to = to, !.amt = a, !.cur = p]

InitSaga ==
  /\ \E a \in SagaInitRowsA, b \in SagaInitRowsB :
       /\ wallet = [id \in WalletIds |-> IF id = "A" THEN a ELSE b]
       /\ initRow = [id \in WalletIds |-> IF id = "A" THEN a ELSE b]
       /\ events = IF b.status = "ABSENT" THEN <<Ev("A", "WALLET_CREATED", "init")>>
                   ELSE <<Ev("A", "WALLET_CREATED", "init"),
                          Ev("B", "WALLET_CREATED", "init")>>
  /\ outbox = <<>>
  /\ idem = [r \in RequestIds \ {"none"} |-> Null]
  /\ lockHolder = [id \in WalletIds |-> "none"]
  /\ redisLock = {}
  /\ today = 0
  /\ saga = [s \in Transfers |-> NoSaga]
  /\ faultsLeft = MaxFaults
  /\ InitEdge
  /\ \E a1 \in 1..MaxAmount, a2 \in 0..MaxAmount :
       /\ loc = [p \in Procs |->
                   IF p = "t1" THEN TransferLoc(p, "A", "B", a1)
                   ELSE IF p = "t2" /\ a2 > 0 THEN TransferLoc(p, "B", "A", a2)
                   ELSE OffLoc]
       /\ pc = [p \in Procs |->
                  IF p = "t1" \/ (p = "t2" /\ a2 > 0) THEN "tStart"
                  ELSE IF p \in Replicas THEN "rIdle" ELSE "off"]
  /\ sumDep = [id \in WalletIds |-> 0]
  /\ sumWd = [id \in WalletIds |-> 0]
  /\ nOps = 0

\* the statements of executeTransfer inside its try block
TryBlock == {"debit", "debitCommit", "afterDebit", "credit", "creditCommit",
             "afterCredit", "complete", "pubDone", "idemSave"}
\* the statements of recoverSaga inside its try block
RecoverTryBlock == {"credit", "creditCommit", "afterCredit", "complete", "pubDone"}

\* where control goes when the statement at pc[p] throws
HandlerPc(p) ==
  IF p \in Transfers
    THEN IF pc[p] \in TryBlock THEN "catch" ELSE "done"
    ELSE IF pc[p] \in RecoverTryBlock THEN "comp" ELSE "rNext"

\* the locals after the statement at pc[p] threw e: a catch block keeps the
\* error it caught, otherwise the error leaves the call
Throw(p, e) ==
  IF HandlerPc(p) \in {"catch", "comp"}
    THEN [loc[p] EXCEPT !.err = e, !.errAt = pc[p], !.buf = NoBuf]
    ELSE [loc[p] EXCEPT !.thrown = e, !.thrownAt = pc[p], !.buf = NoBuf]

\* executeTransfer up to the saga: same-wallet check, findById(from),
\* getOrCreate(to) in its own transaction
TrValidate(p) ==
  /\ pc[p] = "tStart"
  /\ LET from == loc[p].wid
         to == loc[p].to
     IN
       IF from = to \/ wallet[from].status = "ABSENT"
         THEN /\ pc' = [pc EXCEPT ![p] = "done"]
              /\ loc' = [loc EXCEPT ![p] =
                           Throw(p, IF from = to THEN "SameWallet" ELSE "NotFound")]
              /\ UNCHANGED <<wallet, events>>
         ELSE /\ RowLockFree(p, to)
              /\ wallet' = [wallet EXCEPT ![to] = IF @.status = "ABSENT" THEN NewWallet ELSE @]
              /\ events' = IF wallet[to].status = "ABSENT" /\ ~HasEvents(to)
                             THEN Append(events, Ev(to, "WALLET_CREATED", p))
                             ELSE events
              /\ pc' = [pc EXCEPT ![p] = "tCreate"]
              /\ loc' = loc
  /\ UNCHANGED <<outbox, lockHolder, sagaVars, cache, sagaFrame>>

\* new TransferSaga(...) and sagaRepository.save
TrCreateSaga(p) ==
  /\ pc[p] = "tCreate"
  /\ saga' = [saga EXCEPT ![p] = [state |-> "PENDING", from |-> loc[p].wid,
                                  to |-> loc[p].to, amt |-> loc[p].amt,
                                  stale |-> FALSE]]
  /\ pc' = [pc EXCEPT ![p] = "tPubInit"]
  /\ UNCHANGED <<wallet, events, outbox, lockHolder, loc, faultsLeft, cache, sagaFrame>>

\* eventPublisher.publish(TRANSFER_INITIATED), before the try block
TrPublishInitiated(p) ==
  /\ pc[p] = "tPubInit"
  /\ pc' = [pc EXCEPT ![p] = "debit"]
  /\ UNCHANGED <<wallet, events, outbox, lockHolder, loc, sagaVars, cache, sagaFrame>>


\* executeTransactionalStep: the parameters debitFromSender, creditToReceiver
\* and compensate pass to it
LegWallet(p) == IF pc[p] = "credit" THEN loc[p].to ELSE loc[p].wid
LegOperation(p, w) ==
  IF pc[p] = "debit" THEN WalletWithdraw(w, loc[p].amt, today)
  ELSE WalletCredit(w, loc[p].amt)
LegEventType(p) ==
  IF pc[p] = "debit" THEN "FUNDS_WITHDRAWN"
  ELSE IF pc[p] = "credit" THEN "FUNDS_DEPOSITED"
  ELSE "TRANSFER_COMPENSATED"
\* the credit leg passes no updateSaga and writes no saga row
\* a leg that writes no saga row
LegWithoutSagaUpdate(p, st) == Step("same")
LegUpdateSaga(p, st) ==
  IF pc[p] = "debit" THEN MarkAsDebited(st)
  ELSE IF pc[p] = "comp" THEN MarkAsCompensated(st)
  ELSE Step("same")
LegCommitPc(p) ==
  IF pc[p] = "debit" THEN "debitCommit"
  ELSE IF pc[p] = "credit" THEN "creditCommit"
  ELSE "compCommit"

\* executeTransactionalStep inside TransactionManager.execute: lock the wallet
\* row, run the operation, reload the saga, updateSaga, write the event and the
\* outbox row; a throw rolls the transaction back
LegBegin(p) ==
  /\ pc[p] \in {"debit", "credit", "comp"}
  /\ LET id == LegWallet(p)
         r == LegOperation(p, wallet[id])
         u == LegUpdateSaga(p, saga[loc[p].cur].state)
         e == IF wallet[id].status = "ABSENT" THEN "NotFound"
              ELSE IF r.err # "none" THEN r.err
              ELSE IF saga[loc[p].cur].state = "NONE" THEN "NotFound"
              ELSE u.err
     IN
       /\ wallet[id].status # "ABSENT" => RowLockFree(p, id)
       /\ IF e # "none"
            THEN /\ pc' = [pc EXCEPT ![p] = HandlerPc(p)]
                 /\ loc' = [loc EXCEPT ![p] = Throw(p, e)]
                 /\ UNCHANGED lockHolder
            ELSE /\ lockHolder' = [lockHolder EXCEPT ![id] = p]
                 /\ pc' = [pc EXCEPT ![p] = LegCommitPc(p)]
                 /\ loc' = [loc EXCEPT ![p].buf =
                              [wallet |-> r.w, saga |-> u.state,
                               events |-> <<Ev(id, LegEventType(p), loc[p].cur)>>,
                               pending |-> <<>>,
                               outbox |-> <<Row(id, LegEventType(p), loc[p].cur)>>]]
  /\ UNCHANGED <<wallet, events, outbox, sagaVars, cache, sagaFrame>>

LegCommitWallet(p) == IF pc[p] = "creditCommit" THEN loc[p].to ELSE loc[p].wid
LegNextPc(p) ==
  IF pc[p] = "debitCommit" THEN "afterDebit"
  ELSE IF pc[p] = "creditCommit" THEN "afterCredit"
  ELSE "pubFailed"

\* commitTransaction of a leg: the wallet row, the saga row, the event and the
\* outbox row become visible together and the row lock is released
LegCommit(p) ==
  /\ pc[p] \in {"debitCommit", "creditCommit", "compCommit"}
  /\ wallet' = [wallet EXCEPT ![LegCommitWallet(p)] = loc[p].buf.wallet]
  /\ saga' = IF loc[p].buf.saga = "same" THEN saga
             ELSE [saga EXCEPT ![loc[p].cur].state = loc[p].buf.saga,
                               ![loc[p].cur].stale = FALSE]
  /\ events' = events \o loc[p].buf.events
  /\ outbox' = outbox \o loc[p].buf.outbox
  /\ lockHolder' = ReleaseRows(p)
  /\ pc' = [pc EXCEPT ![p] = LegNextPc(p)]
  /\ loc' = [loc EXCEPT ![p].buf = NoBuf]
  /\ UNCHANGED <<faultsLeft, cache, sagaFrame>>

\* debitFromSender's invalidateBalanceCache, then executeTransfer's reload
AfterDebit(p) ==
  /\ pc[p] = "afterDebit"
  /\ pc' = [pc EXCEPT ![p] = "credit"]
  /\ cache' = [cache EXCEPT ![loc[p].wid] = Null]
  /\ UNCHANGED <<wallet, events, outbox, lockHolder, loc, sagaVars, sagaFrame>>

\* creditToReceiver's invalidateBalanceCache; executeTransfer then reloads the
\* saga (finalSaga), recoverSaga keeps the copy it loaded at its start
AfterCredit(p) ==
  /\ pc[p] = "afterCredit"
  /\ pc' = [pc EXCEPT ![p] = "complete"]
  /\ loc' = [loc EXCEPT ![p].loaded =
               IF p \in Transfers THEN saga[loc[p].cur].state ELSE @]
  /\ cache' = [cache EXCEPT ![loc[p].to] = Null]
  /\ UNCHANGED <<wallet, events, outbox, lockHolder, sagaVars, sagaFrame>>

\* markAsCompleted on the in-memory saga, then sagaRepository.save(saga)
Complete(p) ==
  /\ pc[p] = "complete"
  /\ LET u == MarkAsCompleted(loc[p].loaded) IN
       IF u.err # "none"
         THEN /\ pc' = [pc EXCEPT ![p] = HandlerPc(p)]
              /\ loc' = [loc EXCEPT ![p] = Throw(p, u.err)]
              /\ saga' = saga
         ELSE /\ pc' = [pc EXCEPT ![p] = "pubDone"]
              /\ loc' = loc
              /\ saga' = [saga EXCEPT ![loc[p].cur].state = u.state,
                                      ![loc[p].cur].stale = FALSE]
  /\ UNCHANGED <<wallet, events, outbox, lockHolder, faultsLeft, cache, sagaFrame>>

\* eventPublisher.publish(TRANSFER_COMPLETED); executeTransfer then returns
PublishCompleted(p) ==
  /\ pc[p] = "pubDone"
  /\ pc' = [pc EXCEPT ![p] = IF p \in Replicas THEN "rNext"
                              ELSE IF loc[p].rid = "none" THEN "done" ELSE "idemSave"]
  /\ UNCHANGED <<wallet, events, outbox, lockHolder, loc, sagaVars, cache, sagaFrame>>

\* executeTransfer's catch block: reload the saga, compensate if DEBITED
TrCatch(p) ==
  /\ pc[p] = "catch"
  /\ pc' = [pc EXCEPT ![p] = IF saga[p].state = "DEBITED" THEN "comp" ELSE "markFailed"]
  /\ UNCHANGED <<wallet, events, outbox, lockHolder, loc, sagaVars, cache, sagaFrame>>

\* catch block, else branch: markAsFailed, save, throw error
TrMarkFailed(p) ==
  /\ pc[p] = "markFailed"
  /\ saga' = [saga EXCEPT ![p].state = MarkAsFailed(@).state, ![p].stale = FALSE]
  /\ pc' = [pc EXCEPT ![p] = "done"]
  /\ loc' = [loc EXCEPT ![p].thrown = loc[p].err, ![p].thrownAt = loc[p].errAt]
  /\ UNCHANGED <<wallet, events, outbox, lockHolder, faultsLeft, cache, sagaFrame>>

\* compensate's publish(TRANSFER_FAILED); executeTransfer then throws the error
\* it caught, recoverSaga returns
PublishFailed(p) ==
  /\ pc[p] = "pubFailed"
  /\ IF p \in Transfers
       THEN /\ pc' = [pc EXCEPT ![p] = "done"]
            /\ loc' = [loc EXCEPT ![p].thrown = loc[p].err, ![p].thrownAt = loc[p].errAt]
       ELSE /\ pc' = [pc EXCEPT ![p] = "rNext"]
            /\ loc' = loc
  /\ UNCHANGED <<wallet, events, outbox, lockHolder, sagaVars, cache, sagaFrame>>

NextTransfer ==
  \/ \E p \in Transfers : TrValidate(p)
  \/ \E p \in Transfers : TrCreateSaga(p)
  \/ \E p \in Transfers : TrPublishInitiated(p)
  \/ \E p \in Transfers : LegBegin(p)
  \/ \E p \in Transfers : LegCommit(p)
  \/ \E p \in Transfers : AfterDebit(p)
  \/ \E p \in Transfers : AfterCredit(p)
  \/ \E p \in Transfers : Complete(p)
  \/ \E p \in Transfers : PublishCompleted(p)
  \/ \E p \in Transfers : TrCatch(p)
  \/ \E p \in Transfers : TrMarkFailed(p)
  \/ \E p \in Transfers : PublishFailed(p)

SpecTransfer == InitSaga /\ [][NextTransfer]_vars



\* a store, cache or broker call at pc[p] throws: the open transaction is
\* rolled back and control goes to the enclosing handler
FaultSites ==
  {"tCreate", "tPubInit", "debitCommit", "afterDebit", "creditCommit",
   "afterCredit", "complete", "pubDone", "idemSave", "catch", "markFailed",
   "compCommit", "pubFailed"}
Fault(p) ==
  /\ faultsLeft > 0
  /\ pc[p] \in FaultSites
  /\ faultsLeft' = faultsLeft - 1
  /\ pc' = [pc EXCEPT ![p] = HandlerPc(p)]
  /\ loc' = [loc EXCEPT ![p] = Throw(p, "StoreError")]
  /\ lockHolder' = ReleaseRows(p)
  /\ UNCHANGED <<wallet, events, outbox, saga, cache, sagaFrame>>

NextTransferFaulty ==
  \/ NextTransfer
  \/ \E p \in Transfers : Fault(p)

SpecTransferFaulty == InitSaga /\ [][NextTransferFaulty]_vars

\* processStuckSagas: the query for DEBITED sagas older than the threshold,
\* at most BatchLimit of them
\* a query that leaves out the updated_at condition
DebitedSagas == {s \in Transfers : saga[s].state = "DEBITED"}
StuckSagas == {s \in Transfers : saga[s].state = "DEBITED" /\ saga[s].stale}
RecTick(x) ==
  /\ pc[x] = "rIdle"
  /\ StuckSagas # {}
  /\ \E q \in SUBSET StuckSagas :
       /\ Cardinality(q) = IF Cardinality(StuckSagas) < BatchLimit
                             THEN Cardinality(StuckSagas) ELSE BatchLimit
       /\ loc' = [loc EXCEPT ![x].queue = q]
  /\ pc' = [pc EXCEPT ![x] = "rNext"]
  /\ UNCHANGED <<wallet, events, outbox, lockHolder, sagaVars, cache, sagaFrame>>

\* the loop of processStuckSagas and the head of recoverSaga: take the next
\* saga, reload it, go on to the credit leg only if it is DEBITED
RecNext(x) ==
  /\ pc[x] = "rNext"
  /\ IF loc[x].queue = {}
       THEN /\ pc' = [pc EXCEPT ![x] = "rIdle"]
            /\ loc' = [loc EXCEPT ![x] = OffLoc]
       ELSE \E s \in loc[x].queue :
              IF saga[s].state = "DEBITED"
                THEN /\ pc' = [pc EXCEPT ![x] = "credit"]
                     /\ loc' = [loc EXCEPT ![x] =
                                  [OffLoc EXCEPT !.op = "recover", !.wid = saga[s].from,
                                                 !.to = saga[s].to, !.amt = saga[s].amt,
                                                 !.cur = s, !.loaded = saga[s].state,
                                                 !.queue = loc[x].queue \ {s}]]
                ELSE /\ pc' = pc
                     /\ loc' = [loc EXCEPT ![x].queue = @ \ {s}]
  /\ UNCHANGED <<wallet, events, outbox, lockHolder, sagaVars, cache, sagaFrame>>

\* the stuck threshold passes since the saga row was last written
PassTime(s) ==
  /\ saga[s].state = "DEBITED"
  /\ ~saga[s].stale
  /\ saga' = [saga EXCEPT ![s].stale = TRUE]
  /\ UNCHANGED <<wallet, events, outbox, lockHolder, procVars, faultsLeft, cache, sagaFrame>>

\* the process running p dies: its open transaction is rolled back; a transfer
\* call is gone, a replica restarts with its recovery loop idle
Crash(p) ==
  /\ faultsLeft > 0
  /\ pc[p] \notin {"off", "tStart", "done", "crashed", "rIdle"}
  /\ faultsLeft' = faultsLeft - 1
  /\ pc' = [pc EXCEPT ![p] = IF p \in Transfers THEN "crashed" ELSE "rIdle"]
  /\ loc' = [loc EXCEPT ![p] = IF p \in Transfers THEN [@ EXCEPT !.buf = NoBuf] ELSE OffLoc]
  /\ lockHolder' = ReleaseRows(p)
  /\ UNCHANGED <<wallet, events, outbox, saga, cache, sagaFrame>>

NextRecovery ==
  \/ \E x \in Replicas : RecTick(x)
  \/ \E x \in Replicas : RecNext(x)
  \/ \E x \in Replicas : LegBegin(x)
  \/ \E x \in Replicas : LegCommit(x)
  \/ \E x \in Replicas : AfterCredit(x)
  \/ \E x \in Replicas : Complete(x)
  \/ \E x \in Replicas : PublishCompleted(x)
  \/ \E x \in Replicas : PublishFailed(x)
  \/ \E s \in Transfers : PassTime(s)

NextSaga == NextTransfer \/ NextRecovery

NextSagaFaulty ==
  \/ NextSaga
  \/ \E p \in Transfers \cup Replicas : Fault(p)
  \/ \E p \in Transfers \cup Replicas : Crash(p)

\* one executeTransfer call, the recovery loops of two replicas
InitRecovery == InitSaga /\ pc["t2"] = "off"
SpecSaga == InitRecovery /\ [][NextSagaFaulty]_vars
\* the recovery loop keeps ticking and every call that is not failing goes on
SpecSagaFair == SpecSaga /\ WF_vars(NextSaga)

(* ------------------------- claims on the transfer ------------------------ *)
Balance(id) == wallet[id].balance
SumNow == Balance("A") + Balance("B")
SumBefore == initRow["A"].balance + initRow["B"].balance
HoldsLock(p, w) == lockHolder[w] = p
\* p is at a statement that asks for the row lock of w, and another holds it
WaitsFor(p, w) ==
  /\ \/ pc[p] \in {"debit", "credit", "comp"} /\ LegWallet(p) = w
     \/ pc[p] = "tStart" /\ loc[p].to = w
  /\ lockHolder[w] \notin {"none", p}
Bidirectional == pc["t1"] # "off" /\ pc["t2"] # "off"
BothFinished == \A p \in Transfers : pc[p] = "done"

(* C8: concurrent transfers A->B and B->A never deadlock: no transaction     *)
(* waits for a wallet row lock while it holds the other wallet's row lock,  *)
(* a step is possible until both calls have finished, and when both have    *)
(* finished the sum of the two balances is what it was before.              *)
C8_BidirectionalTransfersNoDeadlock ==
  Bidirectional =>
    /\ \A p \in Transfers : \A w1, w2 \in WalletIds :
         ~(w1 # w2 /\ HoldsLock(p, w1) /\ WaitsFor(p, w2))
    /\ BothFinished \/ ENABLED NextTransfer
    /\ BothFinished => SumNow = SumBefore

C8_Witness ==
  /\ Bidirectional
  /\ BothFinished
  /\ \A s \in Transfers : saga[s].state = "COMPLETED"
  /\ Balance("A") # initRow["A"].balance


Finalized(s) == saga[s].state \in {"COMPLETED", "COMPENSATED"}

(* C2: for a single executeTransfer A->B with nothing else touching A or B,  *)
(* whenever the stored saga is COMPLETED or COMPENSATED the two balances sum *)
(* to what they summed to before the transfer.                               *)
C2_FinalizedTransferPreservesSum ==
  (pc["t2"] = "off" /\ Finalized("t1")) => SumNow = SumBefore

DeclaredEdges ==
  {<<"NONE", "PENDING">>, <<"PENDING", "DEBITED">>, <<"PENDING", "FAILED">>,
   <<"DEBITED", "COMPLETED">>, <<"DEBITED", "COMPENSATED">>,
   <<"COMPENSATED", "FAILED">>}

(* C4: every change of a stored saga's state is one of the declared edges    *)
(* (after its insertion as PENDING), so a COMPLETED or FAILED saga never     *)
(* changes state again.                                                      *)
C4_OnlyDeclaredTransitions ==
  [][\A s \in Transfers :
       saga'[s].state # saga[s].state =>
         <<saga[s].state, saga'[s].state>> \in DeclaredEdges]_vars

CreditsOf(s) ==
  {i \in 1..Len(events) : /\ events[i].type = "FUNDS_DEPOSITED"
                          /\ events[i].by = s
                          /\ events[i].wallet = saga[s].to}

(* C5: over executeTransfer, recoverSaga on several replicas and crashes,    *)
(* the destination wallet is credited the amount of a saga at most once.     *)
C5_DestinationCreditedAtMostOnce ==
  \A s \in Transfers : Cardinality(CreditsOf(s)) <= 1

\* the credit leg of p's transfer threw, after the debit leg had committed
CreditLegFailed(p) == loc[p].errAt \in {"credit", "creditCommit"}
SourceActive(p) == wallet[loc[p].wid].status = "ACTIVE"
CompensationCommits(p) == pc[p] = "compCommit" /\ pc'[p] = "pubFailed"
RefundsInOneTransaction(p) ==
  /\ wallet'[loc[p].wid].balance = wallet[loc[p].wid].balance + loc[p].amt
  /\ saga[p].state = "DEBITED"
  /\ saga'[p].state = "COMPENSATED"
CallEnds(p) == pc[p] # "done" /\ pc'[p] = "done"
RethrowsOriginal(p) ==
  /\ loc'[p].thrown = loc[p].err
  /\ loc'[p].thrownAt = loc[p].errAt

CompensateReturns(p) == pc[p] = "pubFailed" /\ faultsLeft' = faultsLeft

C10_EverySagaReachesAnEnd ==
  \A s \in Transfers :
    (saga[s].state # "NONE") ~> (saga[s].state \in {"COMPLETED", "COMPENSATED", "FAILED"})


(* --------------------------- OutboxRelayService -------------------------- *)
RelayBatchLimit == 100
\* a payload on which EventPublisher.publish throws at every attempt
Publishable(row) == row.type # "UNPUBLISHABLE"
Unpublished == {i \in 1..Len(outbox) : ~outbox[i].published}
\* findUnpublished(limit): the oldest `limit` unpublished rows
OldestUnpublished(limit) ==
  {i \in Unpublished : Cardinality({j \in Unpublished : j < i}) < limit}

\* k rows that keep failing, committed before g rows that can be published
RelayInitOutbox(k, g) ==
  [i \in 1..(k + g) |->
     IF i <= k THEN Row("A", "UNPUBLISHABLE", "init")
     ELSE Row("A", "FUNDS_DEPOSITED", "init")]

InitRelay ==
  /\ wallet = [id \in WalletIds |-> NewWallet]
  /\ initRow = [id \in WalletIds |-> NewWallet]
  /\ today = 0
  /\ events = <<>>
  /\ \E k \in {0, 1, RelayBatchLimit - 1, RelayBatchLimit}, g \in 1..MaxAmount :
       outbox = RelayInitOutbox(k, g)
  /\ idem = [r \in RequestIds \ {"none"} |-> Null]
  /\ lockHolder = [id \in WalletIds |-> "none"]
  /\ redisLock = {}
  /\ saga = [s \in Transfers |-> NoSaga]
  /\ faultsLeft = MaxFaults
  /\ InitEdge
  /\ pc = [p \in Procs |-> IF p \in Relays THEN "rlIdle" ELSE "off"]
  /\ loc = [p \in Procs |-> OffLoc]
  /\ sumDep = [id \in WalletIds |-> 0]
  /\ sumWd = [id \in WalletIds |-> 0]
  /\ nOps = 0

relayFrame == <<wallet, events, idem, lockHolder, redisLock, today, saga, cache,
                initRow, fraud, isProcessing, isRecovering, entityVars>>

\* handleCron: the isProcessing flag, findUnpublished(100)
RelayTick(y) ==
  /\ pc[y] = "rlIdle"
  /\ Unpublished # {}
  /\ pc' = [pc EXCEPT ![y] = "rlPublish"]
  /\ loc' = [loc EXCEPT ![y].queue = OldestUnpublished(RelayBatchLimit),
                        ![y].publishedIds = {}]
  /\ UNCHANGED <<outbox, delivered, brokerUp, faultsLeft, relayFrame>>

\* a loop that remembers the id of every row it tried
RelayPublishRemembersAll(y) ==
  /\ pc[y] = "rlPublish"
  /\ loc[y].queue # {}
  /\ LET i == CHOOSE j \in loc[y].queue : \A k \in loc[y].queue : j <= k
         ok == brokerUp /\ Publishable(outbox[i])
     IN
       /\ delivered' = IF ok THEN delivered \cup {i} ELSE delivered
       /\ loc' = [loc EXCEPT ![y].queue = @ \ {i},
                             ![y].publishedIds = @ \cup {i}]
  /\ UNCHANGED <<pc, outbox, brokerUp, faultsLeft, relayFrame>>

\* handleCron, one turn of the loop: publish the row, remember its id, or log
\* the error and go on
RelayPublish(y) ==
  /\ pc[y] = "rlPublish"
  /\ loc[y].queue # {}
  /\ LET i == CHOOSE j \in loc[y].queue : \A k \in loc[y].queue : j <= k
         ok == brokerUp /\ Publishable(outbox[i])
     IN
       /\ delivered' = IF ok THEN delivered \cup {i} ELSE delivered
       /\ loc' = [loc EXCEPT ![y].queue = @ \ {i},
                             ![y].publishedIds = IF ok THEN @ \cup {i} ELSE @]
  /\ UNCHANGED <<pc, outbox, brokerUp, faultsLeft, relayFrame>>

\* handleCron after the loop: markAsPublished(publishedIds), isProcessing = false
RelayMark(y) ==
  /\ pc[y] = "rlPublish"
  /\ loc[y].queue = {}
  /\ outbox' = [i \in 1..Len(outbox) |->
                  IF i \in loc[y].publishedIds
                    THEN [outbox[i] EXCEPT !.published = TRUE] ELSE outbox[i]]
  /\ pc' = [pc EXCEPT ![y] = "rlIdle"]
  /\ loc' = [loc EXCEPT ![y] = OffLoc]
  /\ UNCHANGED <<delivered, brokerUp, faultsLeft, relayFrame>>

\* TransactionManager.publishEventsAsync: the publish right after the commit,
\* which marks nothing; it may also never run
PublishAfterCommit(i) ==
  /\ brokerUp
  /\ i \in Unpublished \ delivered
  /\ Publishable(outbox[i])
  /\ delivered' = delivered \cup {i}
  /\ UNCHANGED <<outbox, procVars, brokerUp, faultsLeft, relayFrame>>

\* the broker becomes unreachable (channelWrapper.publish throws) and comes back
BrokerFails ==
  /\ brokerUp
  /\ faultsLeft > 0
  /\ brokerUp' = FALSE
  /\ faultsLeft' = faultsLeft - 1
  /\ UNCHANGED <<outbox, procVars, delivered, relayFrame>>

BrokerReturns ==
  /\ ~brokerUp
  /\ brokerUp' = TRUE
  /\ UNCHANGED <<outbox, procVars, delivered, faultsLeft, relayFrame>>

NextRelay ==
  \/ \E y \in Relays : RelayTick(y)
  \/ \E y \in Relays : RelayPublish(y)
  \/ \E y \in Relays : RelayMark(y)

NextRelayFaulty ==
  \/ NextRelay
  \/ BrokerReturns
  \/ \E i \in 1..(RelayBatchLimit + MaxAmount) : i <= Len(outbox) /\ PublishAfterCommit(i)
  \/ BrokerFails

\* the relay keeps ticking and the broker is eventually reachable again
SpecRelay ==
  InitRelay /\ [][NextRelayFaulty]_vars /\ WF_vars(NextRelay) /\ WF_vars(BrokerReturns)

(* C11: every committed outbox row that can be published is eventually on   *)
(* the event bus and marked published, whether or not the publish after the *)
(* commit ran, however many older rows keep failing to publish.             *)
C11_EveryRowEventuallyPublished ==
  <>[](\A i \in 1..Len(outbox) :
         Publishable(outbox[i]) => (outbox[i].published /\ i \in delivered))


(* ----------------- executeTransfer called with a requestId --------------- *)
\* the stored response of a transfer, {sagaId, state, ...}, told apart by its saga
SagaNo(s) == IF s = "t1" THEN 1 ELSE 2

\* executeTransfer, the lookup of the idempotency record
TrCheckIdempotency(p) ==
  /\ pc[p] = "tIdem"
  /\ LET r == loc[p].rid IN
       IF r # "none" /\ idem[r] # Null
         THEN /\ pc' = [pc EXCEPT ![p] = "done"]
              /\ loc' = [loc EXCEPT ![p].result = idem[r], ![p].replay = TRUE]
         ELSE /\ pc' = [pc EXCEPT ![p] = "tStart"]
              /\ loc' = loc
  /\ UNCHANGED <<storeVars, today, initRow, fraud, isProcessing, isRecovering, entityVars, sagaVars, edgeVars>>

\* executeTransfer, after the TRANSFER_COMPLETED publish: save the
\* idempotency record, return the result
TrSaveIdempotency(p) ==
  /\ pc[p] = "idemSave"
  /\ idem' = [idem EXCEPT ![loc[p].rid] = SagaNo(p)]
  /\ pc' = [pc EXCEPT ![p] = "done"]
  /\ loc' = [loc EXCEPT ![p].result = SagaNo(p)]
  /\ UNCHANGED <<wallet, events, outbox, lockHolder, redisLock, today, initRow, fraud, isProcessing, isRecovering,
                 entityVars, sagaVars, edgeVars>>

\* two submissions of one transfer A->B under the same requestId
InitTransferIdem ==
  /\ \E a \in SagaInitRowsA, b \in SagaInitRowsB :
       /\ wallet = [id \in WalletIds |-> IF id = "A" THEN a ELSE b]
       /\ initRow = [id \in WalletIds |-> IF id = "A" THEN a ELSE b]
       /\ events = IF b.status = "ABSENT" THEN <<Ev("A", "WALLET_CREATED", "init")>>
                   ELSE <<Ev("A", "WALLET_CREATED", "init"),
                          Ev("B", "WALLET_CREATED", "init")>>
  /\ outbox = <<>>
  /\ idem = [r \in RequestIds \ {"none"} |-> Null]
  /\ lockHolder = [id \in WalletIds |-> "none"]
  /\ redisLock = {}
  /\ today = 0
  /\ saga = [s \in Transfers |-> NoSaga]
  /\ faultsLeft = MaxFaults
  /\ InitEdge
  /\ \E a1 \in 1..MaxAmount :
       loc = [p \in Procs |->
                IF p \in Transfers
                  THEN [TransferLoc(p, "A", "B", a1) EXCEPT !.rid = "r1"]
                  ELSE OffLoc]
  /\ pc = [p \in Procs |-> IF p \in Transfers THEN "tIdem" ELSE "off"]
  /\ sumDep = [id \in WalletIds |-> 0]
  /\ sumWd = [id \in WalletIds |-> 0]
  /\ nOps = 0

NextTransferIdem ==
  \/ NextTransfer
  \/ \E p \in Transfers : TrCheckIdempotency(p)
  \/ \E p \in Transfers : TrSaveIdempotency(p)

SpecTransferIdem == InitTransferIdem /\ [][NextTransferIdem]_vars

DebitsOf(s) ==
  {i \in 1..Len(events) : events[i].type = "FUNDS_WITHDRAWN" /\ events[i].by = s}
TransferReturned(p) == pc[p] = "done" /\ loc[p].thrown = "none"

(* C12: of the submissions of executeTransfer with one requestId at most one *)
(* saga debits the source wallet, and the submissions that return a result   *)
(* return the same result.                                                   *)
C12_SameRequestIdOneDebit ==
  \A p, q \in Transfers :
    (p # q /\ loc[p].rid # "none" /\ loc[p].rid = loc[q].rid) =>
      /\ DebitsOf(p) = {} \/ DebitsOf(q) = {}
      /\ (TransferReturned(p) /\ TransferReturned(q)) => loc[p].result = loc[q].result


\* p takes a step of a call that found an idempotency record for its requestId
ReplayStep(p) == loc'[p].replay /\ pc'[p] # pc[p]

(* C13: a deposit, withdraw or executeTransfer that finds an idempotency     *)
(* record for its requestId writes no wallet row, event, outbox row, saga    *)
(* or cached balance.                                                        *)
C13_ReplayHasNoSideEffect ==
  [][\A p \in Clients \cup Transfers :
       ReplayStep(p) => UNCHANGED <<wallet, events, outbox, saga, cache>>]_vars


(* --------------- a request submitted again after it failed --------------- *)
BusinessErrors ==
  {"InsufficientFunds", "WalletNotActive", "WithdrawalLimitExceeded",
   "CurrencyMismatch", "NonZeroBalance"}

\* the client of a deposit or withdraw that failed with a business-rule error
\* sends the same request, with the same requestId, once more
Resubmit(p) ==
  /\ pc[p] = "done"
  /\ loc[p].rid # "none"
  /\ loc[p].err \in BusinessErrors
  /\ loc[p].prevErr = "none"
  /\ pc' = [pc EXCEPT ![p] = "start"]
  /\ loc' = [loc EXCEPT ![p].prevErr = loc[p].err, ![p].err = "none"]
  /\ UNCHANGED <<storeVars, today, initRow, fraud, isProcessing, isRecovering, entityVars, sagaVars, edgeVars>>

NextServiceResubmit ==
  \/ NextService
  \/ \E p \in Clients : Resubmit(p)

SpecServiceResubmit == InitService /\ [][NextServiceResubmit]_vars

(* C14: when a deposit or withdraw with requestId R failed with a business-  *)
(* rule error, a later submission with R ends with that same error and       *)
(* changes no state, also when the operation would now succeed; stated for  *)
(* a requestId that no other client uses.                                   *)
C14_FailedRequestReplaysItsError ==
  \A p \in Clients :
    (/\ loc[p].prevErr # "none"
     /\ pc[p] \in {"setCache", "done"}
     /\ \A q \in Clients \ {p} : loc[q].rid # loc[p].rid) =>
      /\ loc[p].err = loc[p].prevErr
      /\ ~loc[p].committed


(* ------------------ a failing broker during executeTransfer -------------- *)
\* EventPublisher.publish throws ('EventPublisher not connected', or the
\* broker's error rethrown); executeTransfer and compensate call it directly
PublishSites == {"tPubInit", "pubDone", "pubFailed"}
PublishThrows(p) ==
  /\ pc[p] \in PublishSites
  /\ pc' = [pc EXCEPT ![p] = HandlerPc(p)]
  /\ loc' = [loc EXCEPT ![p] = Throw(p, "PublishError")]
  /\ UNCHANGED <<wallet, events, outbox, lockHolder, sagaVars, cache, sagaFrame>>

NextTransferBrokerDown ==
  \/ NextTransfer
  \/ \E p \in Transfers : PublishThrows(p)

SpecTransferBrokerDown == InitSaga /\ [][NextTransferBrokerDown]_vars

\* what one executeTransfer call on its own does with a working broker
SingleTransfer == pc["t2"] = "off"
FundsSuffice == initRow["A"].balance >= loc["t1"].amt
DestinationTakesCredit == initRow["B"].status \in {"ABSENT", "ACTIVE"}
WorkingBrokerSaga ==
  IF ~FundsSuffice THEN "FAILED"
  ELSE IF DestinationTakesCredit THEN "COMPLETED" ELSE "COMPENSATED"
WorkingBrokerError ==
  IF ~FundsSuffice THEN "InsufficientFunds"
  ELSE IF DestinationTakesCredit THEN "none" ELSE "WalletNotActive"
WorkingBrokerBalanceA ==
  IF FundsSuffice /\ DestinationTakesCredit
    THEN initRow["A"].balance - loc["t1"].amt ELSE initRow["A"].balance
WorkingBrokerBalanceB ==
  IF FundsSuffice /\ DestinationTakesCredit
    THEN initRow["B"].balance + loc["t1"].amt ELSE initRow["B"].balance

\* C15: with a failing or disconnected publisher, executeTransfer ends as it
\* does with a working broker: same result or error, same balances, same final
\* saga state (checked for one transfer running on its own).
C15_BrokerFailureDoesNotChangeOutcome ==
  (SingleTransfer /\ pc["t1"] = "done") =>
    /\ loc["t1"].thrown = WorkingBrokerError
    /\ saga["t1"].state = WorkingBrokerSaga
    /\ Balance("A") = WorkingBrokerBalanceA
    /\ Balance("B") = WorkingBrokerBalanceB


\* the WalletEvent rows present before the call
EventsBefore == IF initRow["B"].status = "ABSENT" THEN 1 ELSE 2
FailedOnBusinessRule(p) == pc[p] = "done" /\ loc[p].thrown \in BusinessErrors

\* C16: an executeTransfer that fails with a business-rule error created and
\* changed no wallet and wrote no WalletEvent and no outbox row (checked for
\* one transfer running on its own).
C16_BusinessErrorLeavesNoTrace ==
  (SingleTransfer /\ FailedOnBusinessRule("t1")) =>
    /\ wallet = initRow
    /\ Len(events) = EventsBefore
    /\ outbox = <<>>


(* ------------------------- the daily withdrawal limit -------------------- *)
\* the running total counts for the current UTC day once a withdrawal has
\* been tracked on it
WithdrewToday(w) == w.lastDay = today

\* C17: whenever a daily withdrawal limit is set, the amount withdrawn during
\* the current UTC day is at most the limit.
C17_WithdrawnTodayWithinLimit ==
  \A id \in WalletIds :
    (wallet[id].limit # Null /\ WithdrewToday(wallet[id])) =>
      wallet[id].dailyTotal <= wallet[id].limit


(* ----------------------- one run of processStuckSagas -------------------- *)
\* a saga left in DEBITED by a call that died after its debit leg: the source
\* has been debited, the destination may be missing, FROZEN or ACTIVE; one
\* replica runs the recovery loop
RecoverRowsA ==
  {[NewWallet EXCEPT !.balance = b, !.status = st] :
     b \in 0..MaxAmount, st \in {"ACTIVE", "FROZEN"}}
InitRecoverOnce ==
  /\ \E a \in RecoverRowsA, b \in SagaInitRowsB :
       /\ wallet = [id \in WalletIds |-> IF id = "A" THEN a ELSE b]
       /\ initRow = [id \in WalletIds |-> IF id = "A" THEN a ELSE b]
       /\ events = IF b.status = "ABSENT" THEN <<Ev("A", "WALLET_CREATED", "init")>>
                   ELSE <<Ev("A", "WALLET_CREATED", "init"),
                          Ev("B", "WALLET_CREATED", "init")>>
  /\ outbox = <<>>
  /\ idem = [r \in RequestIds \ {"none"} |-> Null]
  /\ lockHolder = [id \in WalletIds |-> "none"]
  /\ redisLock = {}
  /\ today = 0
  /\ \E amt \in 1..MaxAmount, old \in BOOLEAN :
       /\ saga = [s \in Transfers |->
                    IF s = "t1" THEN [state |-> "DEBITED", from |-> "A", to |-> "B",
                                      amt |-> amt, stale |-> old]
                    ELSE NoSaga]
       /\ loc = [p \in Procs |-> IF p = "t1" THEN TransferLoc(p, "A", "B", amt) ELSE OffLoc]
  /\ pc = [p \in Procs |-> IF p = "t1" THEN "crashed"
                           ELSE IF p = "x1" THEN "rIdle" ELSE "off"]
  /\ faultsLeft = 0
  /\ InitEdge
  /\ sumDep = [id \in WalletIds |-> 0]
  /\ sumWd = [id \in WalletIds |-> 0]
  /\ nOps = 0

SpecRecoverOnce == InitRecoverOnce /\ [][NextRecovery]_vars

RunEnds(x) == pc[x] = "rNext" /\ pc'[x] = "rIdle"
DestinationActive(s) == initRow[saga[s].to].status = "ACTIVE"

CompensationEnds(x) ==
  /\ pc[x] \in {"comp", "compCommit"}
  /\ pc'[x] \notin {"comp", "compCommit"}
SourceFrozen(x) == wallet[loc[x].wid].status = "FROZEN"

\* C19: compensation of a DEBITED saga whose source wallet is FROZEN still
\* refunds: the source balance grows by the saga amount and the saga becomes
\* COMPENSATED.
C19_CompensationRefundsFrozenSource ==
  [][\A x \in Replicas :
       (/\ CompensationEnds(x)
        /\ SourceFrozen(x)
        /\ saga[loc[x].cur].state = "DEBITED") =>
         /\ saga'[loc[x].cur].state = "COMPENSATED"
         /\ wallet'[loc[x].wid].balance = wallet[loc[x].wid].balance + loc[x].amt]_vars


(* ---------------- TransactionManager.execute and its lock ---------------- *)
\* queryRunner.connect() or startTransaction() throws: both run after the SET
\* NX and before the try block, so neither catch nor finally runs
TmConnectFault(p) ==
  /\ pc[p] = "execute"
  /\ pc' = [pc EXCEPT ![p] = "done"]
  /\ loc' = [loc EXCEPT ![p].err = "StoreError"]
  /\ UNCHANGED <<storeVars, today, initRow, fraud, isProcessing, isRecovering, entityVars, sagaVars, edgeVars>>

NextServiceConnectFaulty ==
  \/ NextServiceFaulty
  \/ \E p \in Clients : TmConnectFault(p)

SpecServiceConnectFaulty == InitService /\ [][NextServiceConnectFaulty]_vars

\* execute took the lock for p's requestId and has returned or thrown
ExecEndedWithLock(p) ==
  /\ pc[p] \in {"setCache", "done"}
  /\ loc[p].rid # "none"
  /\ ~loc[p].replay
  /\ loc[p].err # "ConcurrentRequest"

\* C20: once an execute call that acquired the lock has returned or thrown,
\* its lock key is absent from the lock service (checked for a requestId no
\* other request uses).
C20_LockReleasedWhenExecuteEnds ==
  \A p \in Clients :
    (/\ ExecEndedWithLock(p)
     /\ \A q \in Clients \ {p} : loc[q].rid # loc[p].rid) =>
      loc[p].rid \notin redisLock


(* ------------------ one event and one outbox row per change -------------- *)
OutboxRowsFor(i) ==
  {j \in 1..Len(outbox) :
     /\ outbox[j].aggregate = events[i].wallet
     /\ outbox[j].type = events[i].type
     /\ outbox[j].by = events[i].by}

\* C21: every state change an operation committed has exactly one WalletEvent
\* row and exactly one outbox row: each committed WalletEvent written by a
\* request has exactly one outbox row of its wallet, type and request.
C21_OneOutboxRowPerEvent ==
  \A i \in 1..Len(events) :
    events[i].by # "init" => Cardinality(OutboxRowsFor(i)) = 1

(* ----------------------------- fraud consumer ---------------------------- *)
MaxAttempts == 3
FraudThreshold == 10000
FraudMaxWithdrawals == 3
FraudEventTypes == {"FUNDS_WITHDRAWN", "TRANSFER_COMPLETED"}

\* one event payload published MaxDeliveries times or fewer; the sorted set
\* withdrawals:<walletId> holds the timestamps of other withdrawals: `others`
\* in the window that ends at the payload's timestamp, `later` after it
InitFraud ==
  /\ wallet = [id \in WalletIds |-> NewWallet]
  /\ initRow = [id \in WalletIds |-> NewWallet]
  /\ today = 0
  /\ InitStoreEmpty
  /\ saga = [s \in Transfers |-> NoSaga]
  /\ faultsLeft = 0
  /\ InitBus
  /\ pc = [p \in Procs |-> "off"]
  /\ loc = [p \in Procs |-> OffLoc]
  /\ sumDep = [id \in WalletIds |-> 0]
  /\ sumWd = [id \in WalletIds |-> 0]
  /\ nOps = 0
  /\ \E t \in FraudEventTypes, a \in {FraudThreshold, FraudThreshold + 1},
        n \in 1..MaxDeliveries, o \in {FraudMaxWithdrawals - 1, FraudMaxWithdrawals} :
       fraud = [NoFraud EXCEPT !.type = t, !.amt = a, !.copies = n,
                               !.queue = [i \in 1..n |-> 0], !.others = o]

fraudFrame == <<wallet, events, outbox, idem, lockHolder, redisLock, today, pc, loc,
                saga, faultsLeft, cache, delivered, brokerUp, initRow, isProcessing,
                isRecovering, sumDep, sumWd, nOps>>

\* the broker hands the next message of the queue to a worker (prefetch 1)
FraudDeliver(w) ==
  /\ fraud.wpc[w] = "idle"
  /\ fraud.queue # <<>>
  /\ fraud' = [fraud EXCEPT !.queue = Tail(@), !.wpc[w] = "lock",
                            !.wretry[w] = Head(fraud.queue)]
  /\ UNCHANGED fraudFrame

\* redis SET key NX EX: whether the caller set the key; a plain SET always does
SetAlways(isSet) == TRUE
SetIfAbsent(isSet) == ~isSet

\* handleMessage: acquireLock on the payload's key; a duplicate is acked, a
\* new event goes on to processFraudChecks
FraudAcquireLock(w) ==
  /\ fraud.wpc[w] = "lock"
  /\ IF SetIfAbsent(fraud.key)
       THEN fraud' = [fraud EXCEPT
                        !.key = TRUE,
                        !.runs = @ + 1,
                        !.done = IF fraud.type = "FUNDS_WITHDRAWN" THEN @ ELSE @ + 1,
                        !.wlast[w] = IF fraud.type = "FUNDS_WITHDRAWN" THEN @ ELSE Acked,
                        !.wpc[w] = IF fraud.type = "FUNDS_WITHDRAWN" THEN "rapid" ELSE "idle"]
       ELSE fraud' = [fraud EXCEPT !.wpc[w] = "idle", !.wlast[w] = Acked]
  /\ UNCHANGED fraudFrame

\* detectRapidWithdrawals: zadd the payload's timestamp, trim, zcard, alert
FraudDetectRapid(w) ==
  /\ fraud.wpc[w] = "rapid"
  /\ fraud' = [fraud EXCEPT
                 !.own = TRUE,
                 !.rapid = IF fraud.others + fraud.later + 1 > FraudMaxWithdrawals
                             THEN @ + 1 ELSE @,
                 !.wpc[w] = "high"]
  /\ UNCHANGED fraudFrame

\* detectHighValueTransaction, then ack
FraudDetectHigh(w) ==
  /\ fraud.wpc[w] = "high"
  /\ fraud' = [fraud EXCEPT
                 !.high = IF fraud.amt > FraudThreshold THEN @ + 1 ELSE @,
                 !.done = @ + 1,
                 !.wlast[w] = Acked,
                 !.wpc[w] = "idle"]
  /\ UNCHANGED fraudFrame

\* FRAUD_CONSTANTS.RETRY.DELAYS and the delay handleProcessingError picks
Delays == <<1000, 2000, 4000>>
FirstDelay(retryCount) == Delays[1]
RetryDelay(retryCount) ==
  IF retryCount + 1 <= Len(Delays) THEN Delays[retryCount + 1] ELSE Delays[Len(Delays)]

\* a cache call of acquireLock or detectRapidWithdrawals throws:
\* handleProcessingError sends the content to a wait queue with x-retry-count
\* + 1 and acks, or nacks without requeue after MaxAttempts retries
FraudProcessingError(w) ==
  /\ fraud.wpc[w] \in {"lock", "rapid"}
  /\ fraud.errs < MaxErrors
  /\ LET retryCount == fraud.wretry[w]
         msg == [delay |-> RetryDelay(retryCount), count |-> retryCount + 1]
     IN IF retryCount < MaxAttempts
          THEN fraud' = [fraud EXCEPT
                           !.wait = Append(@, msg),
                           !.errs = @ + 1,
                           !.wlast[w] = [threw |-> TRUE, reply |-> "ack", sent |-> <<msg>>],
                           !.wpc[w] = "idle"]
          ELSE fraud' = [fraud EXCEPT
                           !.dlq = @ + 1,
                           !.errs = @ + 1,
                           !.wlast[w] = [threw |-> TRUE, reply |-> "nack", sent |-> <<>>],
                           !.wpc[w] = "idle"]
  /\ UNCHANGED fraudFrame

\* the TTL of a wait queue runs out for a message in it: the broker
\* dead-letters it back to the main queue
FraudWaitExpires ==
  /\ \E i \in 1..Len(fraud.wait) :
       fraud' = [fraud EXCEPT
                   !.queue = Append(@, fraud.wait[i].count),
                   !.wait = SubSeq(@, 1, i - 1) \o SubSeq(@, i + 1, Len(@))]
  /\ UNCHANGED fraudFrame

\* the TTL of processed_event:<key> runs out (once in the span modelled)
FraudKeyExpires ==
  /\ fraud.key
  /\ ~fraud.expired
  /\ fraud' = [fraud EXCEPT !.key = FALSE, !.expired = TRUE]
  /\ UNCHANGED fraudFrame

\* the TTL of withdrawals:<walletId> runs out
FraudWindowExpires ==
  /\ fraud.own \/ fraud.others > 0 \/ fraud.later > 0
  /\ fraud' = [fraud EXCEPT !.own = FALSE, !.others = 0, !.later = 0]
  /\ UNCHANGED fraudFrame

NextFraud ==
  \/ \E w \in Workers : FraudDeliver(w)
  \/ \E w \in Workers : FraudAcquireLock(w)
  \/ \E w \in Workers : FraudDetectRapid(w)
  \/ \E w \in Workers : FraudDetectHigh(w)
  \/ \E w \in Workers : FraudProcessingError(w)
  \/ FraudWaitExpires
  \/ FraudKeyExpires
  \/ FraudWindowExpires

SpecFraud == InitFraud /\ [][NextFraud]_vars

AtMostOneRun == fraud.runs <= 1 /\ fraud.high <= 1 /\ fraud.rapid <= 1

\* C22 as stated: however often one payload is delivered, at most one delivery
\* runs the fraud rules and at most one alert per rule is written.
C22_AsStated == AtMostOneRun

\* C22: while the payload's processed_event key has not expired, at most one
\* delivery of the payload runs the fraud rules and at most one alert per rule
\* is written, whatever the number of deliveries and workers.
C22_OneRunWithinKeyTtl == ~fraud.expired => AtMostOneRun

C22_Witness ==
  /\ ~fraud.expired
  /\ fraud.copies >= 2
  /\ fraud.queue = <<>>
  /\ \A w \in Workers : fraud.wpc[w] = "idle"
  /\ fraud.runs = 1 /\ fraud.high = 1 /\ fraud.rapid = 1

(* ------------------- calls on TransferSaga objects alone ----------------- *)
SagaMethods == {"markAsDebited", "markAsCompleted", "markAsCompensated", "markAsFailed"}
SagaCall(m, st) ==
  IF m = "markAsDebited" THEN MarkAsDebited(st)
  ELSE IF m = "markAsCompleted" THEN MarkAsCompleted(st)
  ELSE IF m = "markAsCompensated" THEN MarkAsCompensated(st)
  ELSE MarkAsFailed(st)

\* two sagas fresh from the constructor
InitSagaEntity ==
  /\ wallet = [id \in WalletIds |-> NewWallet]
  /\ initRow = [id \in WalletIds |-> NewWallet]
  /\ today = 0
  /\ InitStoreEmpty
  /\ saga = [s \in Transfers |-> [NoSaga EXCEPT !.state = "PENDING", !.amt = 1]]
  /\ faultsLeft = 0
  /\ InitEdge
  /\ pc = [p \in Procs |-> "off"]
  /\ loc = [p \in Procs |-> OffLoc]
  /\ sumDep = [id \in WalletIds |-> 0]
  /\ sumWd = [id \in WalletIds |-> 0]
  /\ nOps = 0

\* one call of a markAs* method on saga s; loc[s] keeps the method, the state
\* it was called in and whether it threw
EntMark(s, m) ==
  LET r == SagaCall(m, saga[s].state) IN
  /\ saga' = [saga EXCEPT ![s].state = r.state]
  /\ loc' = [loc EXCEPT ![s].op = m, ![s].loaded = saga[s].state, ![s].err = r.err]
  /\ UNCHANGED <<wallet, events, outbox, idem, lockHolder, redisLock, today, pc,
                 faultsLeft, edgeVars, initRow, fraud, isProcessing, isRecovering, entityVars>>

NextSagaEntity == \E s \in Transfers, m \in SagaMethods : EntMark(s, m)
SpecSagaEntity == InitSagaEntity /\ [][NextSagaEntity]_vars

\* C23: a markAs* call made in a state from which its transition is not a
\* declared edge throws and leaves the state as it was.
C23_IllegalTransitionThrows ==
  \A s \in Transfers :
    (loc[s].op \in SagaMethods /\ loc[s].err = "none") =>
      <<loc[s].loaded, saga[s].state>> \in DeclaredEdges

(* ------------- the status rules of the Wallet methods, call by call ------ *)
WalletMethods == {"deposit", "withdraw", "credit", "freeze", "unfreeze", "close"}
WalletCall(m, w, a) ==
  IF m = "deposit" THEN WalletDeposit(w, a)
  ELSE IF m = "withdraw" THEN WalletWithdraw(w, a, today)
  ELSE IF m = "credit" THEN WalletCredit(w, a)
  ELSE IF m = "freeze" THEN WalletFreeze(w)
  ELSE IF m = "unfreeze" THEN WalletUnfreeze(w)
  ELSE WalletClose(w)

\* one method call on the Wallet object "A"; loc["c1"] keeps the method, its
\* argument, the object before the call and the error thrown
EntCall(m, a) ==
  LET r == WalletCall(m, wallet["A"], a) IN
  /\ nOps < MaxOps
  /\ r.w.balance <= MaxBalance
  /\ wallet' = [wallet EXCEPT !["A"] = r.w]
  /\ loc' = [loc EXCEPT !["c1"].op = m, !["c1"].amt = a, !["c1"].err = r.err,
                        !["c1"].buf.wallet = wallet["A"]]
  /\ nOps' = nOps + 1
  /\ UNCHANGED <<today, sumDep, sumWd, storeRest, pc, initRow, fraud, isProcessing, isRecovering, sagaVars, edgeVars>>

NextWalletCalls == \E m \in WalletMethods, a \in Amounts : EntCall(m, a)
SpecWalletCalls == InitWallet /\ [][NextWalletCalls]_vars

LastCall == loc["c1"]
Before == loc["c1"].buf.wallet
After == wallet["A"]
Succeeded == LastCall.err = "none"

\* C24: deposit, withdraw and credit succeed only on an ACTIVE wallet and
\* otherwise fail (with WalletNotActive for a positive amount) leaving the
\* wallet as it was; close succeeds only with balance 0, otherwise
\* NonZeroBalance; freeze on CLOSED fails with WalletClosed; unfreeze turns
\* FROZEN into ACTIVE and changes nothing from ACTIVE or CLOSED.
C24_StatusRules ==
  /\ LastCall.op \in {"deposit", "withdraw", "credit"} =>
       /\ Succeeded => Before.status = "ACTIVE"
       /\ Before.status # "ACTIVE" =>
            /\ ~Succeeded
            /\ After = Before
            /\ LastCall.amt > 0 => LastCall.err = "WalletNotActive"
  /\ LastCall.op = "close" =>
       /\ Succeeded => (Before.balance = 0 /\ After.status = "CLOSED")
       /\ Before.balance # 0 => (LastCall.err = "NonZeroBalance" /\ After = Before)
  /\ LastCall.op = "freeze" =>
       /\ Before.status = "CLOSED" => (LastCall.err = "WalletClosed" /\ After = Before)
       /\ Before.status # "CLOSED" => (Succeeded /\ After.status = "FROZEN")
  /\ LastCall.op = "unfreeze" =>
       /\ Succeeded
       /\ Before.status = "FROZEN" => After = [Before EXCEPT !.status = "ACTIVE"]
       /\ Before.status # "FROZEN" => After = Before

C24_Witness ==
  /\ LastCall.op = "credit"
  /\ LastCall.amt > 0
  /\ Before.status = "FROZEN"
  /\ Before.balance > 0
  /\ LastCall.err = "WalletNotActive"

(* ------------------------ the journal is append-only --------------------- *)
\* what a TypeORM subscriber hook does with an UPDATE or DELETE of a
\* WalletEvent: WalletEventSubscriber throws; without a subscriber it passes
NoHook == "pass"
BeforeUpdate == "throw"
BeforeRemove == "throw"

RemoveAt(seq, i) == [j \in 1..(Len(seq) - 1) |-> IF j < i THEN seq[j] ELSE seq[j + 1]]

\* eventRepo.save(existingEvent) with a changed field
DataLayerUpdate(i) ==
  /\ i \in 1..Len(events)
  /\ IF BeforeUpdate = "throw"
       THEN /\ events' = events
            /\ loc' = [loc EXCEPT !["y1"].op = "updateEvent", !["y1"].err = "ImmutableEvent"]
       ELSE /\ events' = [events EXCEPT ![i].type = "CHANGED"]
            /\ loc' = [loc EXCEPT !["y1"].op = "updateEvent", !["y1"].err = "none"]
  /\ UNCHANGED <<wallet, outbox, idem, lockHolder, redisLock, today, pc, initRow, fraud, isProcessing, isRecovering,
                 entityVars, sagaVars, edgeVars>>

\* eventRepo.remove(existingEvent)
DataLayerRemove(i) ==
  /\ i \in 1..Len(events)
  /\ IF BeforeRemove = "throw"
       THEN /\ events' = events
            /\ loc' = [loc EXCEPT !["y1"].op = "removeEvent", !["y1"].err = "ImmutableEvent"]
       ELSE /\ events' = RemoveAt(events, i)
            /\ loc' = [loc EXCEPT !["y1"].op = "removeEvent", !["y1"].err = "none"]
  /\ UNCHANGED <<wallet, outbox, idem, lockHolder, redisLock, today, pc, initRow, fraud, isProcessing, isRecovering,
                 entityVars, sagaVars, edgeVars>>

NextServiceJournal ==
  \/ NextService
  \/ \E i \in 1..Len(events) : DataLayerUpdate(i)
  \/ \E i \in 1..Len(events) : DataLayerRemove(i)

SpecServiceJournal == InitService /\ [][NextServiceJournal]_vars

JournalKept ==
  /\ Len(events') >= Len(events)
  /\ \A i \in 1..Len(events) : events'[i] = events[i]
DataLayerAttempt ==
  /\ loc'["y1"] # loc["y1"]
  /\ loc'["y1"].op \in {"updateEvent", "removeEvent"}

RefundsOf(s) ==
  {i \in 1..Len(events) : /\ events[i].type = "TRANSFER_COMPENSATED"
                          /\ events[i].by = s
                          /\ events[i].wallet = saga[s].from}

\* C26: for each saga the committed credits to the destination plus the
\* committed refunds to the source are at most one.
C26_PaidOutAtMostOnce ==
  \A s \in Transfers :
    saga[s].state # "NONE" => Cardinality(CreditsOf(s)) + Cardinality(RefundsOf(s)) <= 1

(* --------------------------- a leg that is retried ----------------------- *)
\* executeWithRetry: the leg's transaction fails with a retryable store error
\* (serialization failure, deadlock, unique violation), is rolled back and the
\* leg starts again
LegRetryPc(p) ==
  IF pc[p] = "debitCommit" THEN "debit"
  ELSE IF pc[p] = "creditCommit" THEN "credit"
  ELSE "comp"
LegRetry(p) ==
  /\ faultsLeft > 0
  /\ pc[p] \in {"debitCommit", "creditCommit", "compCommit"}
  /\ faultsLeft' = faultsLeft - 1
  /\ pc' = [pc EXCEPT ![p] = LegRetryPc(p)]
  /\ loc' = [loc EXCEPT ![p].buf = NoBuf, ![p].prevErr = "Retryable"]
  /\ lockHolder' = ReleaseRows(p)
  /\ UNCHANGED <<wallet, events, outbox, saga, cache, sagaFrame>>

NextTransferRetry ==
  \/ NextTransferFaulty
  \/ \E p \in Transfers : LegRetry(p)

SpecTransferRetry == InitSaga /\ [][NextTransferRetry]_vars

WentThroughDebited(s) == saga[s].state \in {"DEBITED", "COMPLETED", "COMPENSATED"}
DebitMatchesSaga(s) ==
  /\ Cardinality(DebitsOf(s)) <= 1
  /\ DebitsOf(s) # {} => saga[s].state \notin {"NONE", "PENDING"}
  /\ WentThroughDebited(s) => DebitsOf(s) # {}
BecomesDebited(s) == saga[s].state = "PENDING" /\ saga'[s].state = "DEBITED"
DebitApplied(s) ==
  /\ Len(events') = Len(events) + 1
  /\ events'[Len(events')] = Ev(saga[s].from, "FUNDS_WITHDRAWN", s)
  /\ wallet'[saga[s].from].balance = wallet[saga[s].from].balance - saga[s].amt

\* C27: the debit of the source wallet and the saga's PENDING->DEBITED
\* transition commit in one step: a saga that went through DEBITED has its
\* debit, a saga with a debit has left PENDING, and there is at most one debit
\* per saga, also when the leg is retried.
C27_DebitCommitsWithDebited ==
  /\ [](\A s \in Transfers : DebitMatchesSaga(s))
  /\ [][\A s \in Transfers : BecomesDebited(s) <=> DebitApplied(s)]_vars

C27_Witness ==
  \E s \in Transfers :
    /\ loc[s].prevErr = "Retryable"
    /\ Cardinality(DebitsOf(s)) = 1
    /\ saga[s].state = "COMPLETED"
    /\ wallet[saga[s].from].balance < initRow[saga[s].from].balance

(* ------- freeze, unfreeze, close, setDailyWithdrawalLimit (service) ------ *)
StateChangeOps == {"freeze", "unfreeze", "close", "setLimit"}

ScOperation(p, w) ==
  IF loc[p].op = "freeze" THEN WalletFreeze(w)
  ELSE IF loc[p].op = "unfreeze" THEN WalletUnfreeze(w)
  ELSE IF loc[p].op = "close" THEN WalletClose(w)
  ELSE WalletSetDailyWithdrawalLimit(w, loc[p].amt)

\* setDailyWithdrawalLimit records its change under the freeze / unfreeze types
ScEventType(p) ==
  IF loc[p].op = "freeze" THEN "WALLET_FROZEN"
  ELSE IF loc[p].op = "unfreeze" THEN "WALLET_UNFROZEN"
  ELSE IF loc[p].op = "close" THEN "WALLET_CLOSED"
  ELSE IF loc[p].amt = Null THEN "WALLET_UNFROZEN" ELSE "WALLET_FROZEN"

\* em.save(Wallet, wallet): the columns in which the object differs from the
\* row save() has just selected, and the row after UPDATE ... SET of those
ChangedColumns(ent, row) == {f \in DOMAIN ent : ent[f] # row[f]}
UpdateColumns(row, ent, cols) ==
  [f \in DOMAIN row |-> IF f \in cols THEN ent[f] ELSE row[f]]

ScInitLocs ==
  {[OffLoc EXCEPT !.op = o, !.amt = a] : o \in {"deposit", "withdraw"}, a \in 1..MaxAmount}
    \cup {[OffLoc EXCEPT !.op = o] : o \in {"freeze", "unfreeze", "close"}}
    \cup {[OffLoc EXCEPT !.op = "setLimit", !.amt = l] : l \in Limits}

InitStateChange ==
  /\ \E row \in SvcInitRows :
       /\ wallet = [id \in WalletIds |-> IF id = "A" THEN row ELSE AbsentWallet]
       /\ initRow = [id \in WalletIds |-> IF id = "A" THEN row ELSE AbsentWallet]
       /\ events = IF row.status = "ABSENT" THEN <<>>
                   ELSE <<Ev("A", "WALLET_CREATED", "init")>>
  /\ outbox = <<>>
  /\ idem = [r \in RequestIds \ {"none"} |-> Null]
  /\ lockHolder = [id \in WalletIds |-> "none"]
  /\ redisLock = {}
  /\ today = 0
  /\ InitSagaEmpty
  /\ \E l1, l2 \in ScInitLocs :
       /\ loc = [p \in Procs |-> IF p = "c1" THEN l1 ELSE IF p = "c2" THEN l2 ELSE OffLoc]
       /\ pc = [p \in Procs |->
                  IF p \notin Clients THEN "off"
                  ELSE IF (IF p = "c1" THEN l1 ELSE l2).op \in StateChangeOps THEN "scRead"
                  ELSE "start"]
  /\ sumDep = [id \in WalletIds |-> 0]
  /\ sumWd = [id \in WalletIds |-> 0]
  /\ nOps = 0

\* executeStateChange / setDailyWithdrawalLimit inside transactionManager.execute
\* (no lockKey): walletRepository.findById(walletId), a plain read through the
\* repository's own connection, then the entity method
ScRead(p) ==
  /\ pc[p] = "scRead"
  /\ LET row == wallet[loc[p].wid]
         r == ScOperation(p, row)
     IN IF row.status = "ABSENT"
          THEN /\ pc' = [pc EXCEPT ![p] = "rollback"]
               /\ loc' = [loc EXCEPT ![p].err = "NotFound"]
        ELSE IF r.err # "none"
          THEN /\ pc' = [pc EXCEPT ![p] = "rollback"]
               /\ loc' = [loc EXCEPT ![p].err = r.err]
        ELSE /\ pc' = [pc EXCEPT ![p] = "scLoad"]
             /\ loc' = [loc EXCEPT ![p].buf.wallet = r.w]
  /\ UNCHANGED <<storeVars, today, initRow, fraud, isProcessing, isRecovering, entityVars, sagaVars, edgeVars>>

\* saveWithEvent, em.save(Wallet, wallet): select the row by id in the
\* transaction and compare the object with it
ScLoad(p) ==
  /\ pc[p] = "scLoad"
  /\ pc' = [pc EXCEPT ![p] = "scUpdate"]
  /\ loc' = [loc EXCEPT ![p].dirty = ChangedColumns(loc[p].buf.wallet, wallet[loc[p].wid])]
  /\ UNCHANGED <<storeVars, today, initRow, fraud, isProcessing, isRecovering, entityVars, sagaVars, edgeVars>>

\* saveWithEvent: UPDATE the changed columns (waits for the row lock, holds it
\* until the transaction ends), insert the event; ctx.publishEvent; saveAll
ScUpdate(p) ==
  /\ pc[p] = "scUpdate"
  /\ loc[p].dirty # {} => RowLockFree(p, loc[p].wid)
  /\ lockHolder' = IF loc[p].dirty # {} THEN [lockHolder EXCEPT ![loc[p].wid] = p]
                   ELSE lockHolder
  /\ pc' = [pc EXCEPT ![p] = "scCommit"]
  /\ loc' = [loc EXCEPT
       ![p].buf.events = <<Ev(loc[p].wid, ScEventType(p), p)>>,
       ![p].buf.outbox = <<Row(loc[p].wid, ScEventType(p), p)>>]
  /\ UNCHANGED <<wallet, events, outbox, idem, redisLock, today, initRow, fraud, isProcessing, isRecovering, entityVars, sagaVars, edgeVars>>

ScCommit(p) ==
  /\ pc[p] = "scCommit"
  /\ wallet' = [wallet EXCEPT ![loc[p].wid] =
                  UpdateColumns(wallet[loc[p].wid], loc[p].buf.wallet, loc[p].dirty)]
  /\ events' = events \o loc[p].buf.events
  /\ outbox' = outbox \o loc[p].buf.outbox
  /\ lockHolder' = ReleaseRows(p)
  /\ pc' = [pc EXCEPT ![p] = IF loc[p].op = "setLimit" THEN "done" ELSE "scInvalidate"]
  /\ loc' = [loc EXCEPT ![p].committed = TRUE, ![p].buf = NoBuf]
  /\ UNCHANGED <<idem, redisLock, today, initRow, fraud, isProcessing, isRecovering, entityVars, sagaVars, edgeVars>>

\* freezeWallet / unfreezeWallet / closeWallet: invalidateBalanceCache(walletId)
ScInvalidate(p) ==
  /\ pc[p] = "scInvalidate"
  /\ cache' = [cache EXCEPT ![loc[p].wid] = Null]
  /\ pc' = [pc EXCEPT ![p] = "done"]
  /\ UNCHANGED <<storeVars, today, loc, initRow, fraud, isProcessing, isRecovering, entityVars, sagaVars, delivered, brokerUp>>

NextStateChange ==
  \/ NextService
  \/ \E p \in Clients : ScRead(p)
  \/ \E p \in Clients : ScLoad(p)
  \/ \E p \in Clients : ScUpdate(p)
  \/ \E p \in Clients : ScCommit(p)
  \/ \E p \in Clients : ScInvalidate(p)

SpecStateChange == InitStateChange /\ [][NextStateChange]_vars

\* one mutation run alone on a wallet row: the row it leaves and its outcome
MutationAlone(row, p) ==
  IF loc[p].op \notin StateChangeOps THEN SerialRun(row, p)
  ELSE IF row.status = "ABSENT" THEN [row |-> row, err |-> "NotFound"]
  ELSE LET r == ScOperation(p, row)
       IN IF r.err = "none" THEN [row |-> r.w, err |-> "none"]
          ELSE [row |-> row, err |-> r.err]

MutationsInOrder(p, q) ==
  LET first == MutationAlone(initRow[loc[p].wid], p)
      second == MutationAlone(first.row, q)
  IN /\ loc[p].err = first.err
     /\ loc[q].err = second.err
     /\ wallet[loc[p].wid] = second.row

\* C28: every wallet mutation reads and writes the row under an exclusive row
\* lock of its transaction, so two concurrent mutations of one wallet leave the
\* row that one of their two serial orders leaves (no lost update).
C28_NoLostUpdate ==
  \A p, q \in Clients :
    (p # q /\ Done(p) /\ Done(q)) => (MutationsInOrder(p, q) \/ MutationsInOrder(q, p))

(* ------------------- the request lock key reaches its TTL ----------------- *)
\* SET lockKey 'PROCESSING' EX lockTtl NX: the key leaves the cache lockTtl
\* seconds after it was set, whatever the call that set it is doing
LockKeyExpires(r) ==
  /\ r \in redisLock
  /\ redisLock' = redisLock \ {r}
  /\ UNCHANGED <<wallet, events, outbox, idem, lockHolder, today, procVars, initRow, fraud, isProcessing, isRecovering, entityVars, sagaVars, edgeVars>>

NextServiceExpiry ==
  \/ NextService
  \/ \E r \in RequestIds : LockKeyExpires(r)

SpecServiceExpiry == InitService /\ [][NextServiceExpiry]_vars

\* between the SET NX of execute and the DEL of its finally block
InsideLock(p) ==
  loc[p].rid # "none" /\ pc[p] \in {"execute", "saveOutbox", "commit", "rollback"}

\* C29: at any time at most one TransactionManager.execute call with a given
\* lockKey is between its lock acquisition and its lock release, also when the
\* key expires while the call is still running.
C29_OneCallPerLockKey ==
  \A p, q \in Clients :
    (p # q /\ loc[p].rid = loc[q].rid) => ~(InsideLock(p) /\ InsideLock(q))

\* C30: under any interleaving of deposit, withdraw, freeze, unfreeze, close and
\* limit changes on one wallet, a stored wallet with status CLOSED has stored
\* balance 0.
C30_ClosedHasZeroBalance ==
  \A id \in WalletIds : wallet[id].status = "CLOSED" => wallet[id].balance = 0

(* ----------------------- one relay tick, row by row ---------------------- *)
\* the row the loop of handleCron takes next
RelayNextRow(y) == CHOOSE j \in loc[y].queue : \A k \in loc[y].queue : j <= k
RelayLoopStep(y) ==
  pc[y] = "rlPublish" /\ pc'[y] = "rlPublish" /\ loc'[y].queue # loc[y].queue
RelayMarkStep(y) == pc[y] = "rlPublish" /\ pc'[y] = "rlIdle"

\* a turn of the loop remembers the row's id exactly when its publish succeeded,
\* and leaves the later rows of the batch to be tried
TurnRemembersSuccessOnly(y) ==
  RelayLoopStep(y) =>
    LET i == RelayNextRow(y) IN
      /\ loc'[y].queue = loc[y].queue \ {i}
      /\ i \in loc'[y].publishedIds <=> (brokerUp /\ Publishable(outbox[i]))
      /\ i \in loc'[y].publishedIds => i \in delivered'
      /\ loc'[y].publishedIds \ {i} = loc[y].publishedIds
\* the end of the tick marks the remembered rows and no other; a row it leaves
\* unpublished is in the next tick's batch
MarkOnlyPublished(y) ==
  RelayMarkStep(y) =>
    /\ loc[y].queue = {}
    /\ \A i \in 1..Len(outbox) :
         /\ (outbox'[i].published /\ ~outbox[i].published) => i \in loc[y].publishedIds
         /\ i \in loc[y].publishedIds => (outbox'[i].published /\ i \in delivered)
         /\ (i \in OldestUnpublished(RelayBatchLimit) /\ i \notin loc[y].publishedIds) =>
              (~outbox'[i].published /\ i \in OldestUnpublished(RelayBatchLimit)')

\* C31: in one relay tick a fetched row is marked published only if its publish
\* succeeded in that tick; a failed publish does not stop the later rows of the
\* batch from being tried, and the failed row stays unpublished and is fetched
\* again by the next tick.
C31_TickMarksOnlyPublishedRows ==
  [][\A y \in Relays : TurnRemembersSuccessOnly(y) /\ MarkOnlyPublished(y)]_vars

C31_Witness ==
  \E i, j \in 1..Len(outbox) :
    /\ i < j
    /\ ~Publishable(outbox[i]) /\ ~outbox[i].published
    /\ outbox[j].published /\ j \in delivered
    /\ pc["y1"] = "rlIdle"
    /\ i \in OldestUnpublished(RelayBatchLimit)

(* -------- the cron loops of one worker process and their flags ---------- *)
\* two invocations of handleCron (Ticks) and two of processStuckSagas
\* (Replicas) in one process, which share isProcessing and isRecovering
cronStore == <<wallet, events, outbox, idem, lockHolder, redisLock, today, saga, cache,
               delivered, brokerUp, initRow, fraud, entityVars>>

\* a check that never finds the flag set
NeverBusy(f) == FALSE
\* if (this.isProcessing) return;   if (this.isRecovering) return;
FlagBusy(f) == f

InitCron ==
  /\ \E a \in {NewWallet}, b \in SagaInitRowsB :
       /\ wallet = [id \in WalletIds |-> IF id = "A" THEN a ELSE b]
       /\ initRow = [id \in WalletIds |-> IF id = "A" THEN a ELSE b]
       /\ events = IF b.status = "ABSENT" THEN <<Ev("A", "WALLET_CREATED", "init")>>
                   ELSE <<Ev("A", "WALLET_CREATED", "init"),
                          Ev("B", "WALLET_CREATED", "init")>>
  /\ \E k, g \in 0..1 : outbox = RelayInitOutbox(k, g)
  /\ idem = [r \in RequestIds \ {"none"} |-> Null]
  /\ lockHolder = [id \in WalletIds |-> "none"]
  /\ redisLock = {}
  /\ today = 0
  /\ \E amt \in {1}, old \in BOOLEAN :
       /\ saga = [s \in Transfers |->
                    IF s = "t1" THEN [state |-> "DEBITED", from |-> "A", to |-> "B",
                                      amt |-> amt, stale |-> old]
                    ELSE NoSaga]
       /\ loc = [p \in Procs |-> IF p = "t1" THEN TransferLoc(p, "A", "B", amt) ELSE OffLoc]
  /\ pc = [p \in Procs |-> IF p = "t1" THEN "crashed"
                           ELSE IF p \in Replicas \cup Ticks THEN "cron" ELSE "off"]
  /\ faultsLeft = MaxFaults
  /\ InitEdge
  /\ sumDep = [id \in WalletIds |-> 0]
  /\ sumWd = [id \in WalletIds |-> 0]
  /\ nOps = 0

\* handleCron, the flag check and the assignment that follows it at once
HcEnter(k) ==
  /\ pc[k] = "cron"
  /\ IF FlagBusy(isProcessing)
       THEN /\ pc' = [pc EXCEPT ![k] = "skipped"]
            /\ UNCHANGED isProcessing
       ELSE /\ pc' = [pc EXCEPT ![k] = "rlFetch"]
            /\ isProcessing' = TRUE
  /\ UNCHANGED <<loc, faultsLeft, isRecovering, cronStore>>

\* handleCron: findUnpublished(100); if (events.length === 0) return;
HcFetch(k) ==
  /\ pc[k] = "rlFetch"
  /\ IF OldestUnpublished(RelayBatchLimit) = {}
       THEN /\ pc' = [pc EXCEPT ![k] = "rlIdle"]
            /\ loc' = loc
       ELSE /\ pc' = [pc EXCEPT ![k] = "rlPublish"]
            /\ loc' = [loc EXCEPT ![k].queue = OldestUnpublished(RelayBatchLimit),
                                  ![k].publishedIds = {}]
  /\ UNCHANGED <<faultsLeft, isProcessing, isRecovering, cronStore>>

\* handleCron: findUnpublished or markAsPublished throws, the outer catch logs
HcThrows(k) ==
  /\ faultsLeft > 0
  /\ pc[k] = "rlFetch" \/ (pc[k] = "rlPublish" /\ loc[k].queue = {})
  /\ faultsLeft' = faultsLeft - 1
  /\ pc' = [pc EXCEPT ![k] = "rlIdle"]
  /\ loc' = [loc EXCEPT ![k] = [OffLoc EXCEPT !.err = "StoreError"]]
  /\ UNCHANGED <<isProcessing, isRecovering, cronStore>>

\* handleCron: finally { this.isProcessing = false }
HcFinally(k) ==
  /\ pc[k] = "rlIdle"
  /\ isProcessing' = FALSE
  /\ pc' = [pc EXCEPT ![k] = "ended"]
  /\ UNCHANGED <<loc, faultsLeft, isRecovering, cronStore>>

\* processStuckSagas, the flag check and the assignment that follows it at once
PsEnter(x) ==
  /\ pc[x] = "cron"
  /\ IF FlagBusy(isRecovering)
       THEN /\ pc' = [pc EXCEPT ![x] = "skipped"]
            /\ UNCHANGED isRecovering
       ELSE /\ pc' = [pc EXCEPT ![x] = "rFind"]
            /\ isRecovering' = TRUE
  /\ UNCHANGED <<loc, faultsLeft, isProcessing, cronStore>>

\* processStuckSagas: the query; if (stuckSagas.length === 0) return;
PsFind(x) ==
  /\ pc[x] = "rFind"
  /\ IF StuckSagas = {}
       THEN /\ pc' = [pc EXCEPT ![x] = "rIdle"]
            /\ loc' = loc
       ELSE /\ pc' = [pc EXCEPT ![x] = "rNext"]
            /\ \E q \in SUBSET StuckSagas :
                 /\ Cardinality(q) = IF Cardinality(StuckSagas) < BatchLimit
                                       THEN Cardinality(StuckSagas) ELSE BatchLimit
                 /\ loc' = [loc EXCEPT ![x].queue = q]
  /\ UNCHANGED <<faultsLeft, isProcessing, isRecovering, cronStore>>

\* processStuckSagas: the query throws, the outer catch logs
PsThrows(x) ==
  /\ faultsLeft > 0
  /\ pc[x] = "rFind"
  /\ faultsLeft' = faultsLeft - 1
  /\ pc' = [pc EXCEPT ![x] = "rIdle"]
  /\ loc' = [loc EXCEPT ![x] = [OffLoc EXCEPT !.err = "StoreError"]]
  /\ UNCHANGED <<isProcessing, isRecovering, cronStore>>

\* processStuckSagas: finally { this.isRecovering = false }
PsFinally(x) ==
  /\ pc[x] = "rIdle"
  /\ isRecovering' = FALSE
  /\ pc' = [pc EXCEPT ![x] = "ended"]
  /\ UNCHANGED <<loc, faultsLeft, isProcessing, cronStore>>

NextCron ==
  \/ \E k \in Ticks : HcEnter(k)
  \/ \E k \in Ticks : HcFetch(k)
  \/ \E k \in Ticks : RelayPublish(k)
  \/ \E k \in Ticks : RelayMark(k)
  \/ \E k \in Ticks : HcThrows(k)
  \/ \E k \in Ticks : HcFinally(k)
  \/ \E x \in Replicas : PsEnter(x)
  \/ \E x \in Replicas : PsFind(x)
  \/ \E x \in Replicas : PsThrows(x)
  \/ \E x \in Replicas : PsFinally(x)
  \/ \E x \in Replicas : RecNext(x)
  \/ \E x \in Replicas : LegBegin(x)
  \/ \E x \in Replicas : LegCommit(x)
  \/ \E x \in Replicas : AfterCredit(x)
  \/ \E x \in Replicas : Complete(x)
  \/ \E x \in Replicas : PublishCompleted(x)
  \/ \E x \in Replicas : PublishFailed(x)
  \/ \E s \in Transfers : PassTime(s)

SpecCron == InitCron /\ [][NextCron]_vars

OutsideLoop == {"off", "cron", "skipped", "ended"}
PastFlagCheck(S) == {p \in S : pc[p] \notin OutsideLoop}

\* C32: for handleCron and for processStuckSagas, within one process at most
\* one execution is past the flag check at any time, and once an execution
\* that passed the check has ended, with work done, with nothing found or by
\* a throw, the flag is false again.
C32_OneExecutionPastTheFlag ==
  /\ Cardinality(PastFlagCheck(Ticks)) <= 1
  /\ Cardinality(PastFlagCheck(Replicas)) <= 1
  /\ PastFlagCheck(Ticks) = {} => ~isProcessing
  /\ PastFlagCheck(Replicas) = {} => ~isRecovering
  /\ PastFlagCheck(Ticks) # {} => isProcessing
  /\ PastFlagCheck(Replicas) # {} => isRecovering

C32_Witness ==
  /\ \E x, y \in Replicas :
       /\ pc[x] = "ended" /\ loc[x].err = "StoreError"
       /\ pc[y] = "ended" /\ saga["t1"].state = "COMPLETED"
  /\ \E k, j \in Ticks :
       /\ pc[k] = "skipped"
       /\ pc[j] = "ended" /\ \E i \in 1..Len(outbox) : outbox[i].published
  /\ ~isProcessing /\ ~isRecovering

(* ---------------------- a call that finds the key set -------------------- *)
FindsKeySet(p) ==
  pc[p] = "acquire" /\ pc'[p] # "acquire" /\ loc[p].rid # "none" /\ loc[p].rid \in redisLock
Refused(p) == loc[p].err = "ConcurrentRequest"

\* C33: a call of execute whose lockKey is already set throws ConflictException
\* without opening a transaction, without running the operation and without
\* deleting or changing the key.
C33_RefusedCallTouchesNothing ==
  /\ [][\A p \in Clients :
          FindsKeySet(p) =>
            /\ pc'[p] = "done" /\ Refused(p)'
            /\ redisLock' = redisLock
            /\ UNCHANGED <<wallet, events, outbox, idem, lockHolder>>]_vars
  /\ [](\A p \in Clients :
          Refused(p) =>
            /\ Done(p) /\ ~loc[p].committed /\ loc[p].buf = NoBuf
            /\ EventsBy(p) = {} /\ OutboxBy(p) = {}
            /\ \A id \in WalletIds : lockHolder[id] # p)

C33_Witness ==
  \E p, q \in Clients :
    /\ p # q /\ Refused(p) /\ Done(p)
    /\ loc[q].rid = loc[p].rid /\ pc[q] = "saveOutbox"
    /\ loc[q].rid \in redisLock

(* ------------------ what the consumer does with a failure ---------------- *)
\* worker w leaves its message because processing threw
ProcessingThrew(w) ==
  fraud.wpc[w] # "idle" /\ fraud'.wpc[w] = "idle" /\ fraud'.wlast[w].threw

\* C34: when processing a message throws and its x-retry-count (absent: 0) is
\* below 3, the consumer sends the content to the wait queue of
\* DELAYS[retryCount] with x-retry-count = retryCount + 1 and acks the
\* original; at 3 or more it nacks the original without requeue and sends
\* nothing.
C34_RetryOrDeadLetter ==
  [][\A w \in Workers :
       ProcessingThrew(w) =>
         LET retryCount == fraud.wretry[w] IN
           IF retryCount < 3
             THEN /\ fraud'.wlast[w].reply = "ack"
                  /\ fraud'.wlast[w].sent =
                       <<[delay |-> <<1000, 2000, 4000>>[retryCount + 1],
                          count |-> retryCount + 1]>>
                  /\ fraud'.wait = fraud.wait \o fraud'.wlast[w].sent
                  /\ fraud'.dlq = fraud.dlq
             ELSE /\ fraud'.wlast[w].reply = "nack"
                  /\ fraud'.wlast[w].sent = <<>>
                  /\ fraud'.wait = fraud.wait
                  /\ fraud'.dlq = fraud.dlq + 1]_vars

C34_Witness ==
  \E w \in Workers :
    /\ fraud.dlq = 1
    /\ fraud.wlast[w].threw /\ fraud.wlast[w].reply = "nack"
    /\ fraud.wretry[w] = 3
    /\ fraud.wait = <<>>

\* every copy of the message has been answered and none is waiting
AllAnswered ==
  /\ fraud.queue = <<>> /\ fraud.wait = <<>>
  /\ \A w \in Workers : fraud.wpc[w] = "idle"

\* C35: a FUNDS_WITHDRAWN message whose rule processing threw is not
\* acknowledged as handled without the fraud rules having run to completion
\* for it: a redelivery from a wait queue runs the rules again, until they
\* succeed or the message is dead-lettered.
C35_RulesCompleteBeforeAck ==
  (fraud.type = "FUNDS_WITHDRAWN" /\ AllAnswered /\ fraud.errs > 0 /\ ~fraud.expired) =>
    (fraud.done > 0 \/ fraud.dlq > 0)

(* ------------- events of one wallet processed out of order -------------- *)
\* as InitFraud, and a withdrawal of the same wallet with a later timestamp may
\* have been processed first (two workers, or a redelivery of this event)
InitFraudOrder ==
  /\ wallet = [id \in WalletIds |-> NewWallet]
  /\ initRow = [id \in WalletIds |-> NewWallet]
  /\ today = 0
  /\ InitStoreEmpty
  /\ saga = [s \in Transfers |-> NoSaga]
  /\ faultsLeft = 0
  /\ InitBus
  /\ pc = [p \in Procs |-> "off"]
  /\ loc = [p \in Procs |-> OffLoc]
  /\ sumDep = [id \in WalletIds |-> 0]
  /\ sumWd = [id \in WalletIds |-> 0]
  /\ nOps = 0
  /\ \E t \in FraudEventTypes, a \in {FraudThreshold, FraudThreshold + 1},
        n \in 1..2, o \in {FraudMaxWithdrawals - 1, FraudMaxWithdrawals}, l \in 0..1 :
       fraud = [NoFraud EXCEPT !.type = t, !.amt = a, !.copies = n,
                               !.queue = [i \in 1..n |-> 0], !.others = o, !.later = l]

SpecFraudOrder == InitFraudOrder /\ [][NextFraud]_vars

RapidRuleRan(w) == fraud.wpc[w] = "rapid" /\ fraud'.wpc[w] = "high"
HighRuleRan(w) == fraud.wpc[w] = "high" /\ fraud'.wpc[w] = "idle"

\* C36: for a FUNDS_WITHDRAWN event that passed the duplicate check, a
\* HIGH_VALUE_TRANSACTION alert is written iff amount > threshold and a
\* RAPID_WITHDRAWALS alert iff the withdrawals of the wallet in the window that
\* ends at the event's timestamp, this one included, number more than
\* maxWithdrawals; for any other event type no alert is written.
C36_AlertsMatchRules ==
  /\ [][\A w \in Workers :
          /\ RapidRuleRan(w) =>
               (fraud'.rapid = fraud.rapid + 1 <=> fraud.others + 1 > 3)
          /\ RapidRuleRan(w) => fraud'.rapid \in {fraud.rapid, fraud.rapid + 1}
          /\ HighRuleRan(w) =>
               (fraud'.high = fraud.high + 1 <=> fraud.amt > 10000)
          /\ HighRuleRan(w) => fraud'.high \in {fraud.high, fraud.high + 1}]_vars
  /\ [](fraud.type # "FUNDS_WITHDRAWN" => (fraud.high = 0 /\ fraud.rapid = 0))
  /\ [][fraud'.high # fraud.high \/ fraud'.rapid # fraud.rapid =>
          \E w \in Workers : RapidRuleRan(w) \/ HighRuleRan(w)]_vars

(* ------------------------- executeWithRetry alone ------------------------ *)
MaxRetries == 10
\* what one call of the wrapped operation ends with: a result, a store error
\* code, the optimistic lock error, or another error
StepOutcomes == {"none", "40001", "40P01", "23505", "OptimisticLockVersionMismatchError",
                 "InsufficientFunds", "WalletNotActive", "InvalidAmount",
                 "CurrencyMismatch", "IllegalTransition", "NotFound", "StoreError"}
AllRetryable(e) == TRUE
IsRetryableError(e) ==
  e \in {"40001", "40P01", "23505", "OptimisticLockVersionMismatchError"}

\* one executeWithRetry call; nOps counts the calls of operation()
InitRetry ==
  /\ wallet = [id \in WalletIds |-> NewWallet]
  /\ initRow = [id \in WalletIds |-> NewWallet]
  /\ today = 0
  /\ InitStoreEmpty
  /\ InitSagaEmpty
  /\ pc = [p \in Procs |-> IF p = "t1" THEN "rwLoop" ELSE "off"]
  /\ loc = [p \in Procs |-> OffLoc]
  /\ sumDep = [id \in WalletIds |-> 0]
  /\ sumWd = [id \in WalletIds |-> 0]
  /\ nOps = 0

retryFrame == <<wallet, events, outbox, idem, lockHolder, redisLock, today, saga,
                faultsLeft, cache, delivered, brokerUp, initRow, fraud, isProcessing,
                isRecovering, sumDep, sumWd>>

\* one turn of the for loop: attempt < maxRetries, operation(), the catch
RwAttempt(p, e) ==
  /\ pc[p] = "rwLoop"
  /\ nOps < MaxRetries
  /\ nOps' = nOps + 1
  /\ IF e = "none"
       THEN /\ pc' = [pc EXCEPT ![p] = "done"]
            /\ loc' = [loc EXCEPT ![p].prevErr = e, ![p].result = 0]
     ELSE IF IsRetryableError(e)
       THEN /\ pc' = pc
            /\ loc' = [loc EXCEPT ![p].prevErr = e]
     ELSE /\ pc' = [pc EXCEPT ![p] = "done"]
          /\ loc' = [loc EXCEPT ![p].prevErr = e, ![p].err = e]
  /\ UNCHANGED retryFrame

\* after the loop: throw new Error('Operation failed due to concurrent modification ...')
RwExhausted(p) ==
  /\ pc[p] = "rwLoop"
  /\ ~(nOps < MaxRetries)
  /\ pc' = [pc EXCEPT ![p] = "done"]
  /\ loc' = [loc EXCEPT ![p].err = "ConcurrentModification"]
  /\ UNCHANGED <<nOps, retryFrame>>

NextRetry ==
  \/ \E e \in StepOutcomes : RwAttempt("t1", e)
  \/ RwExhausted("t1")

\* the loop keeps running: each awaited call and each backoff ends
SpecRetry == InitRetry /\ [][NextRetry]_vars /\ WF_vars(NextRetry)

OperationRan == nOps' = nOps + 1
RetryableCodes == {"40001", "40P01", "23505", "OptimisticLockVersionMismatchError"}

\* C37: executeWithRetry calls the step at most maxRetries (10) times and
\* always ends; an error that is not retryable is rethrown by the attempt that
\* met it, with no retry, and after maxRetries retryable failures the call
\* throws.
C37_RetryIsBounded ==
  /\ [](nOps <= 10)
  /\ [][OperationRan =>
          LET e == loc'["t1"].prevErr IN
            /\ e = "none" => (pc'["t1"] = "done" /\ loc'["t1"].err = "none")
            /\ e \in RetryableCodes => (pc'["t1"] = "rwLoop" /\ loc'["t1"].err = "none")
            /\ (e # "none" /\ e \notin RetryableCodes) =>
                 (pc'["t1"] = "done" /\ loc'["t1"].err = e)]_vars
  /\ [][(pc["t1"] = "rwLoop" /\ nOps = 10) =>
          (pc'["t1"] = "done" /\ loc'["t1"].err = "ConcurrentModification" /\ nOps' = nOps)]_vars
  /\ <>(pc["t1"] = "done")

C37_Witness ==
  /\ pc["t1"] = "done"
  /\ nOps = 10
  /\ loc["t1"].err = "ConcurrentModification"
  /\ loc["t1"].prevErr = "40P01"

\* no deposit or withdraw call is in flight
NoCallInFlight == \A p \in Clients : pc[p] \in {"off", "done"}

\* C38: once every deposit, withdraw, transfer and getBalance call on a wallet
\* has finished, and before the cache TTL runs out, the cached balance of the
\* wallet, if there is one, equals the stored balance.
C38_CacheMatchesStoreAtRest ==
  NoCallInFlight =>
    \A id \in WalletIds : cache[id] # Null => cache[id] = wallet[id].balance

CreatedEvents(id) ==
  {i \in 1..Len(events) : events[i].wallet = id /\ events[i].type = "WALLET_CREATED"}
EventsOfWallet(id) == {i \in 1..Len(events) : events[i].wallet = id}
AutoProvisioned(id) == initRow[id].status = "ABSENT" /\ wallet[id].status # "ABSENT"

\* C39: a wallet created by auto-provisioning, also when several requests
\* provision the same id at once, has exactly one WALLET_CREATED event in the
\* journal, and that event comes before every other event of the wallet.
C39_OneCreatedEventFirst ==
  \A id \in WalletIds :
    /\ AutoProvisioned(id) =>
         /\ Cardinality(CreatedEvents(id)) = 1
         /\ \A i \in CreatedEvents(id) : \A j \in EventsOfWallet(id) : i <= j
    /\ wallet[id].status = "ABSENT" => EventsOfWallet(id) = {}

C39_Witness ==
  \E p, q \in Clients :
    /\ p # q /\ loc[p].committed /\ loc[q].committed
    /\ loc[p].op = "deposit" /\ loc[q].op = "deposit"
    /\ AutoProvisioned("A")
    /\ Cardinality(EventsOfWallet("A")) = 3
    /\ Cardinality(CreatedEvents("A")) = 1


(* ------------------ claims on what recovery leaves alone ----------------- *)
\* the saga of a call that died after its debit leg, and the recovery loops of
\* two replicas, each its own process with its own isRecovering flag
InitRecoverTwo ==
  /\ \E a \in RecoverRowsA, b \in SagaInitRowsB :
       /\ wallet = [id \in WalletIds |-> IF id = "A" THEN a ELSE b]
       /\ initRow = [id \in WalletIds |-> IF id = "A" THEN a ELSE b]
       /\ events = IF b.status = "ABSENT" THEN <<Ev("A", "WALLET_CREATED", "init")>>
                   ELSE <<Ev("A", "WALLET_CREATED", "init"),
                          Ev("B", "WALLET_CREATED", "init")>>
  /\ outbox = <<>>
  /\ idem = [r \in RequestIds \ {"none"} |-> Null]
  /\ lockHolder = [id \in WalletIds |-> "none"]
  /\ redisLock = {}
  /\ today = 0
  /\ \E amt \in 1..MaxAmount, old \in BOOLEAN :
       /\ saga = [s \in Transfers |->
                    IF s = "t1" THEN [state |-> "DEBITED", from |-> "A", to |-> "B",
                                      amt |-> amt, stale |-> old]
                    ELSE NoSaga]
       /\ loc = [p \in Procs |-> IF p = "t1" THEN TransferLoc(p, "A", "B", amt) ELSE OffLoc]
  /\ pc = [p \in Procs |-> IF p = "t1" THEN "crashed"
                           ELSE IF p \in Replicas THEN "rIdle" ELSE "off"]
  /\ faultsLeft = 0
  /\ InitEdge
  /\ sumDep = [id \in WalletIds |-> 0]
  /\ sumWd = [id \in WalletIds |-> 0]
  /\ nOps = 0

SpecRecoverTwo == InitRecoverTwo /\ [][NextRecovery]_vars

\* the replica x takes the step
RecoveryActs(x) == pc'[x] # pc[x] \/ loc'[x] # loc[x]
\* the saga row is written: its state changes or its updated_at is renewed
SagaWritten(s) == saga'[s].state # saga[s].state \/ (saga[s].stale /\ ~saga'[s].stale)
BalanceChanged(id) == wallet'[id].balance # wallet[id].balance
\* the saga the replica's recoverSaga call found in DEBITED when it reloaded it
Resumed(x) ==
  IF loc[x].op = "recover" /\ loc[x].loaded = "DEBITED" THEN {loc[x].cur} ELSE {}
\* the query of one tick returns
TickSelects(x) == pc[x] \in {"rIdle", "rFind"} /\ pc'[x] = "rNext"
\* the loop of processStuckSagas calls recoverSaga, which reloads the saga
RecoverSagaReloads(x) ==
  pc[x] = "rNext" /\ pc'[x] \in {"rNext", "credit"} /\ RecoveryActs(x)

====
